---- MODULE Spec2Model ----
(***************************************************************************)
(* Process management (PID table, fork, _exit, waitpid) and the per-process *)
(* file table with shared open-file objects of the OS161 kernel in          *)
(* kern/proc/proc.c and kern/syscall/.                                      *)
(*                                                                          *)
(* A process is identified by its struct proc (a record of Recs); every     *)
(* user process has exactly one thread, named by the same record.  A freed  *)
(* record keeps its last field values: a read through a stale pointer sees  *)
(* them, or the kernel crashes.                                             *)
(***************************************************************************)
EXTENDS Integers, FiniteSets, Sequences, TLC

\* ------------------------------------------------------------------ bounds
MaxProcs == 4            \* struct proc records kmalloc'd in a run
PID_MAX == 5             \* __PID_MAX, scaled down (32767 in kern/limits.h)
OPEN_MAX == 4            \* __OPEN_MAX, scaled down (128 in kern/limits.h)
MaxObjs == 4             \* open-file objects kmalloc'd in a run
MaxOff == 2              \* largest file offset / file size explored
MaxFileForks == 1        \* fork calls in a run of FileSpec
MaxFileOps == 2          \* file system calls in a run of FileSpec
MaxLockForks == 1        \* fork calls in a run of LockSpec
MaxLockOps == 2          \* file system calls in a run of LockSpec
MaxWaitForks == 1        \* fork calls in a run of FairSpec
MaxSoloOps == 3          \* file system calls in a run of SoloSpec
MaxThreads == 3          \* kernel threads using the lock, CV and semaphore
MaxSyncOps == 6          \* calls of the synchronisation primitives in a run
MaxSemInit == 1          \* largest initial_count given to sem_create
MaxFairSyncOps == 4      \* calls of the primitives in a run of SynchFairSpec
TotalPages == 5          \* total_pages: the frames the coremap manages
MaxNPages == 3           \* largest npages passed to alloc_kpages
MaxRegions == 2          \* regions defined in one address space
MaxFaults == 3           \* vm_fault calls in a run of AsSpec
MaxArgc == 3             \* strings in execv's argv
MaxMemFaults == 2        \* vm_fault calls in a run of ForkSpec
MaxStores == 2           \* stores in a run of ForkSpec
MaxMemForks == 1         \* fork calls in a run of MemSpec
MaxSbrks == 4            \* sbrk calls in a run of SbrkSpec

\* --------------------------------------------------------------- constants
PID_MIN == 2
\* kern/errno.h: ENPROC is 12, a value inside [__PID_MIN, __PID_MAX); the
\* scaled table keeps it inside the range.
ENPROC == PID_MIN + 1
ENOMEM == 3
EFAULT == 6
EINVAL == 8
ESRCH == 15
ECHILD == 16
EMFILE == 28
EBADF == 30
ESPIPE == 33
ENOENT == 19
EIO == 32
E2BIG == 14
ENOEXEC == 13
SEEK_SET == 0
SEEK_CUR == 1
SEEK_END == 2

NoProc == 0              \* NULL struct proc * / no thread
NoObj == 0               \* NULL struct open_file_handler *
NoStatus == -1           \* the user's status word has not been written
NoParent == -1           \* p_parent before fork sets it

Recs == 1..MaxProcs
Pids == PID_MIN..(PID_MAX - 1)
Fds == 0..(OPEN_MAX - 1)
Objs == 1..MaxObjs
ExitCodes == {263, -1}
WaitPidArgs == (PID_MIN - 1)..PID_MAX
WaitOptions == {0, 1}
FdArgs == -1..(OPEN_MAX + 1)
Counts == 0..1
SeekPos == -1..1
Whences == SEEK_SET..(SEEK_END + 1)

Min(S) == CHOOSE x \in S : \A y \in S : x <= y

VARIABLES
  pid_table,     \* proc.c:67   pid -> struct proc * (NoProc = NULL)
  proc,          \* the struct proc records
  file_table,    \* proc->file_table->files[] of each record
  obj,           \* the open-file objects
  pc,            \* where each process's thread is
  loc,           \* the locals of the system call a thread is in
  ev,            \* the system-call return made by the last step, if any
  budget,        \* fork calls and file system calls still allowed
  panicked,      \* "no", or why the kernel has stopped
  ft_lock,       \* the thread holding each file table's lock
  file_lock,     \* the thread holding each open-file object's lock
  sem_count,     \* synch.c: sem_count of each semaphore
  sem_lock,      \* the thread holding each semaphore's spinlock sem_lock
  sem_wchan,     \* the threads asleep on each semaphore's sem_wchan
  lk_owner,      \* lk_owner of the lock
  cv_lock,       \* the thread holding the CV's spinlock cv_lock
  cv_wchan,      \* the threads asleep on the CV's cv_wchan
  th,            \* each kernel thread: the primitive it called, where it is
  holds,         \* the threads inside a critical section of the lock
  hist,          \* calls still allowed, the semaphore's initial count and
                 \* its completed P and V calls
  returned,      \* the call of a primitive that returned at the last step
  coremap,       \* coremap.c:26   the coremap entries, one per frame
  coremap_ready, \* coremap.c:35
  vmcall,        \* the allocator call made by the last step and its result
  vmprev,        \* the allocator call before that one
  vmbefore,      \* the coremap as it was before the last allocator call
  addrspaces,    \* the struct addrspace records
  curas,         \* proc_getas(): the current process's address space, or NoAs
  tlb,           \* the TLB slots
  aret,          \* the address-space call made by the last step, its result
  abudget,       \* address-space calls still allowed
  xargs,         \* execv: the strlen of each string of the caller's argv
  xenv,          \* execv: what the calls execv relies on will answer
  xret,          \* execv: how the call ended, and the new user stack
  framedata,     \* what each frame of physical memory holds
  mbudget        \* process-level memory calls still allowed

lvars == <<ft_lock, file_lock>>
kvars == <<pid_table, proc, file_table, obj, pc, loc, ev, budget, panicked,
           lvars>>
svars == <<sem_count, sem_lock, sem_wchan, lk_owner, cv_lock, cv_wchan, th,
           holds, hist, returned>>
mvars == <<coremap, coremap_ready, vmcall, vmprev, vmbefore>>
avars == <<addrspaces, curas, tlb, aret, abudget>>
xvars == <<xargs, xenv, xret>>
pvars == <<framedata, mbudget>>
vars == <<kvars, svars, mvars, avars, xvars, pvars>>

\* ------------------------------------------------------------ wait status
\* kern/wait.h: _MKWAIT_EXIT(x) is ((x) << 2) | __WEXITED with __WEXITED 0,
\* and WEXITSTATUS(x) is (x) >> 2.
MKWAIT_EXIT(x) == x * 4
WEXITSTATUS(x) == x \div 4

ExitStatusNoMask(code) == MKWAIT_EXIT(code)
\* exit_syscall.c:17  _MKWAIT_EXIT(code & 0xff)
ExitStatus(code) == MKWAIT_EXIT(code % 256)

\* ---------------------------------------------------------------- records
\* struct proc (proc.c:115-157).  st is "unused" (never allocated), "live" or
\* "freed"; p_threads says whether the thread is attached; p_waitlock is the
\* thread holding the wait-lock; p_waitcv the threads asleep on the wait-CV.
\* exit_arg, forker and registered are history: the argument of the _exit
\* call, the record whose fork created this one, and whether proc_allocpid
\* stored the record in the PID table.
NoProcRec ==
  [st |-> "unused", p_pid |-> 0, p_parent |-> NoParent, p_exited |-> FALSE,
   p_exitcode |-> 0, p_threads |-> FALSE, p_waitlock |-> NoProc,
   p_waitcv |-> {}, exit_arg |-> 0, forker |-> NoProc, registered |-> FALSE]

\* a return to user mode: the thread, the call, the error (0 on success), the
\* value returned, the status word written to user memory, the record the
\* call was about, the pid and options arguments of a waitpid call, the
\* descriptor argument of a file call (newfd for dup2), the oldfd of dup2, and
\* the pos and whence arguments of lseek with the size VOP_STAT reported
NoEv == [t |-> NoProc, call |-> "none", err |-> 0, val |-> 0,
         status |-> NoStatus, target |-> NoProc, pid |-> 0, options |-> 0,
         fd |-> 0, oldfd |-> 0, pos |-> 0, whence |-> 0, size |-> 0]
Ret(call, err, val) == [NoEv EXCEPT !.call = call, !.err = err, !.val = val]
FileRet(call, fd, err, val) == [Ret(call, err, val) EXCEPT !.fd = fd]
Dup2Ret(oldfd, newfd, err, val) ==
  [FileRet("dup2", newfd, err, val) EXCEPT !.oldfd = oldfd]

\* the locals of a system call in progress: the target, pid and options of a
\* waitpid and the status it read; the object open_file_decref works on and
\* the result the call returns once open_file_decref is done; the slot the
\* loop of copy_file_table is at
NoLoc == [child |-> NoProc, pid |-> 0, options |-> 0, code |-> 0,
          o |-> NoObj, ret |-> NoEv, i |-> 0]

WaitRet(l, err, val) ==
  [Ret("waitpid", err, val) EXCEPT !.target = l.child, !.pid = l.pid,
                                   !.options = l.options]

EmptyTable == [fd \in Fds |-> NoObj]

\* ---------------------------------------------------------------- PID table
FreePids(tbl) == {i \in Pids : tbl[i] = NoProc}

\* proc.c:79-92  the PID proc_allocpid returns: the lowest free slot, or the
\* error code ENPROC, returned as if it were a PID
proc_allocpid(tbl) ==
  IF FreePids(tbl) # {} THEN Min(FreePids(tbl)) ELSE ENPROC

\* proc.c:84-85  the table after proc_allocpid(p)
proc_allocpid_table(tbl, p) ==
  IF FreePids(tbl) # {} THEN [tbl EXCEPT ![Min(FreePids(tbl))] = p] ELSE tbl

\* proc.c:95-103
proc_get(tbl, pid) ==
  IF pid >= PID_MIN /\ pid < PID_MAX THEN tbl[pid] ELSE NoProc

\* proc.c:106-110
proc_freepid(tbl, pid) == [tbl EXCEPT ![pid] = NoProc]

\* --------------------------------------------------------------- file table
\* file_table.c:45-48  destroy_file_table sets the slot to NULL and then hands
\* the slot's (new) value to open_file_decref
DecrefArgOfDestroy(ft, fd) == [ft EXCEPT ![fd] = NoObj][fd]

\* open_file_handler.c:59-63  open_file_decref's locked decrement
DecObj(o, f) ==
  IF f = NoObj THEN o ELSE [o EXCEPT ![f].reference_count = @ - 1]

\* open_file_handler.c:53-57  open_file_incref
IncObj(o, f) == [o EXCEPT ![f].reference_count = @ + 1]

RECURSIVE DestroyFrom(_, _, _)
\* file_table.c:43-50  the loop of destroy_file_table from slot fd on
DestroyFrom(ft, o, fd) ==
  IF fd >= OPEN_MAX THEN o
  ELSE IF ft[fd] # NoObj
       THEN DestroyFrom(ft, DecObj(o, DecrefArgOfDestroy(ft, fd)), fd + 1)
       ELSE DestroyFrom(ft, o, fd + 1)

\* file_table.c:39-54  the open-file objects after destroy_file_table(ft)
destroy_file_table(ft, o) == DestroyFrom(ft, o, 0)

RECURSIVE CopyFrom(_, _, _)
\* file_table.c:68-74  the loop of copy_file_table: one incref per slot
CopyFrom(ft, o, fd) ==
  IF fd >= OPEN_MAX THEN o
  ELSE IF ft[fd] # NoObj THEN CopyFrom(ft, IncObj(o, ft[fd]), fd + 1)
       ELSE CopyFrom(ft, o, fd + 1)

copy_file_table_empty(ft) == [fd \in Fds |-> NoObj]
\* file_table.c:59-77  the new table copy_file_table(ft) returns
copy_file_table(ft) == [fd \in Fds |-> ft[fd]]

\* ------------------------------------------- synchronisation primitives
\* One free-standing semaphore, one lock (a semaphore created with count 1
\* and an owner field, synch.c:148-184) and one condition variable, used by
\* MaxThreads kernel threads.  A spinlock is held by one thread at a time; a
\* wait channel holds the set of threads asleep on it.
Threads == 1..MaxThreads
NoThread == 0
Sems == {"sem", "lk_sem"}

IdleTh == [op |-> "none", pc |-> "idle"]
NoDone == [t |-> NoThread, call |-> "none"]

\* the state after sem_create(initial), lock_create and cv_create
\* (synch.c:47-74, 148-184, 249-279), with ops calls allowed
SynchBoot(initial, ops) ==
  /\ sem_count = [s \in Sems |-> IF s = "sem" THEN initial ELSE 1]
  /\ sem_lock = [s \in Sems |-> NoThread]
  /\ sem_wchan = [s \in Sems |-> {}]
  /\ lk_owner = NoThread
  /\ cv_lock = NoThread
  /\ cv_wchan = {}
  /\ th = [t \in Threads |-> IdleTh]
  /\ holds = {}
  /\ hist = [ops |-> ops, initial |-> initial, nP |-> 0, nV |-> 0]
  /\ returned = NoDone

\* spinlock_acquire gets a spinlock that nobody holds
spinlock_ignored(holder) == TRUE
spinlock_free(holder) == holder = NoThread

\* wchan_wakeone: the wait channels that can result, one sleeper (any one)
\* taken off if there is one; wchan_wakeall takes all off
wchan_wakeone(wc) == IF wc = {} THEN {{}} ELSE {wc \ {w} : w \in wc}
wchan_wakeall(wc) == {{}}

\* the semaphore the primitive a thread is in works on: sem for P and V, the
\* lock's semaphore for lock_acquire, lock_release and cv_wait
SemOf(t) == IF th[t].op \in {"P", "V"} THEN "sem" ELSE "lk_sem"

At(t, where) == th[t].pc = where
Goto(t, where) == th' = [th EXCEPT ![t].pc = where]
Call(t, op, where) ==
  /\ At(t, "idle") /\ hist.ops > 0
  /\ th' = [th EXCEPT ![t] = [op |-> op, pc |-> where]]
  /\ hist' = [hist EXCEPT !.ops = @ - 1]
  /\ returned' = NoDone
  /\ UNCHANGED <<kvars, mvars, avars, xvars, pvars>>
SyncReturn(t) ==
  /\ th' = [th EXCEPT ![t] = IdleTh]
  /\ returned' = [t |-> t, call |-> th[t].op]
  /\ UNCHANGED <<kvars, mvars, avars, xvars, pvars>>
SyncStep(t, where) ==
  /\ Goto(t, where)
  /\ returned' = NoDone
  /\ UNCHANGED <<kvars, mvars, avars, xvars, pvars>>

\* ----------------------------------------------------------------- coremap
\* coremap.c.  A frame is named by its index in the coremap; an address below
\* first_paddr is index -1, one past the last frame is index TotalPages.
Frames == 0..(TotalPages - 1)
BelowFirst == -1
NoFrame == -2            \* the 0 an allocation returns when it fails
FrameArgs == BelowFirst..TotalPages
NPagesArgs == 0..MaxNPages

FreeEntry == [free |-> TRUE, block_size |-> 0]
NoVmCall == [call |-> "none", arg |-> 0, val |-> NoFrame, halted |-> FALSE]
VmRet(call, arg, val) == [NoVmCall EXCEPT !.call = call, !.arg = arg, !.val = val]

\* coremap.c:41-81  the state after vm_bootstrap
VmBooted ==
  /\ coremap = [i \in Frames |-> FreeEntry]
  /\ coremap_ready = TRUE
  /\ vmcall = VmRet("vm_bootstrap", 0, NoFrame)
  /\ vmprev = NoVmCall
  /\ vmbefore = coremap

FirstFrame(cm) == Min(Frames)
\* coremap.c:100-101  the first free frame
FirstFree(cm) ==
  IF \E i \in Frames : cm[i].free
  THEN Min({i \in Frames : cm[i].free})
  ELSE NoFrame

\* coremap.c:176-184  frames [i, i + npages) exist and are all free
run_ok(cm, i, npages) ==
  \A j \in 0..(npages - 1) : i + j < TotalPages /\ cm[i + j].free

\* coremap.c:168-187  the first free frame that starts such a run
FirstRun(cm, npages) ==
  IF \E i \in Frames : cm[i].free /\ run_ok(cm, i, npages)
  THEN Min({i \in Frames : cm[i].free /\ run_ok(cm, i, npages)})
  ELSE NoFrame

\* coremap.c:189-195  the head gets the length, the rest of the run length 0
MarkRun(cm, i, npages) ==
  [k \in Frames |->
     IF k = i THEN [free |-> FALSE, block_size |-> npages]
     ELSE IF k > i /\ k < i + npages THEN [free |-> FALSE, block_size |-> 0]
     ELSE cm[k]]

\* coremap.c:247-250  block_ln frames from index on are freed
FreeRun(cm, index, block_ln) ==
  [k \in Frames |->
     IF k >= index /\ k < index + block_ln THEN FreeEntry ELSE cm[k]]

VmRunning == ~vmcall.halted
\* what the last two calls were and what the coremap was before the last one
VmRecord == vmprev' = vmcall /\ vmbefore' = coremap
VmHalt(call, arg) ==
  /\ vmcall' = [VmRet(call, arg, NoFrame) EXCEPT !.halted = TRUE]
  /\ UNCHANGED <<coremap, coremap_ready>>

\* ----------------------------------------------------------- address space
\* addrspace.c, vm.c.  Addresses are bytes of a vaddr_t scaled from 32 to 9
\* bits: the pages are 32 bytes, a level-2 table has 2 entries, level 1 has 8,
\* and USERSTACK is the middle of the address space as 0x80000000 is.
VADDR_SPACE == 512
PAGE_SIZE == 32
USERSTACK == 256
PT_L2_SIZE == 2
NUM_TLB == 2
VM_FAULT_READ == 0
VM_FAULT_WRITE == 1
VM_FAULT_READONLY == 2

Vaddrs == 0..(VADDR_SPACE - 1)
Vpages == {a \in Vaddrs : a % PAGE_SIZE = 0}
\* unsigned 32-bit arithmetic of vaddr_t
U32(x) == x % VADDR_SPACE
\* vm.c:45  faultaddress &= PAGE_FRAME
PageOf(a) == a - (a % PAGE_SIZE)
\* vm.c:110-111  the level-1 and level-2 indices of a page
L1Index(a) == a \div (PAGE_SIZE * PT_L2_SIZE)
L2Index(a) == (a \div PAGE_SIZE) % PT_L2_SIZE
L1Indices == {L1Index(a) : a \in Vpages}

AsIds == 1..3
NoAs == 0

\* addrspace.c:59-89  as_create.  st is "none" (no such record), "live" or
\* "destroyed"; pt_l1 holds the level-1 indices that have a level-2 table, pt
\* the frame of each page (NoFrame is the 0 of an unmapped page).
NewAs ==
  [st |-> "live",
   regions |-> <<>>,
   pt_l1 |-> {},
   pt |-> [a \in Vpages |-> NoFrame],
   heap_base |-> 0, heap_end |-> 0,
   stack_base |-> 0, stack_end |-> 0,
   loading |-> FALSE]
NoAddrspace == [NewAs EXCEPT !.st = "none"]

\* tlb.h: TLBHI_INVALID / TLBLO_INVALID
InvalidTlb == [valid |-> FALSE, vpn |-> 0, frame |-> NoFrame, dirty |-> FALSE]
TlbSlots == 0..(NUM_TLB - 1)

NoAsCall ==
  [call |-> "none", faulttype |-> 0, addr |-> 0, amount |-> 0,
   err |-> 0, val |-> 0]
FaultRet(faulttype, addr, err) ==
  [NoAsCall EXCEPT !.call = "vm_fault", !.faulttype = faulttype,
                   !.addr = addr, !.err = err]
AsRet(call, err) == [NoAsCall EXCEPT !.call = call, !.err = err]

\* no user address space: kernel threads only, nothing in the TLB
AsIdle ==
  /\ addrspaces = [i \in AsIds |-> NoAddrspace]
  /\ curas = NoAs
  /\ tlb = [i \in TlbSlots |-> InvalidTlb]
  /\ aret = NoAsCall
  /\ abudget = [faults |-> 0, sbrks |-> 0]

\* vm.c:67-68  the bounds of a region
RegionStart(r) == r.vbase
RegionEnd(r) == U32(r.vbase + r.npages * PAGE_SIZE)
\* vm.c:71
InRegion(r, fa) == fa >= RegionStart(r) /\ fa < RegionEnd(r)

\* vm.c:64-80  the first region of the list that holds the address, 0 if none
FindRegion(as, fa) ==
  IF \E k \in 1..Len(as.regions) : InRegion(as.regions[k], fa)
  THEN Min({k \in 1..Len(as.regions) : InRegion(as.regions[k], fa)})
  ELSE 0

\* vm.c:83-94
InHeap(as, fa) == fa >= as.heap_base /\ fa < as.heap_end
InStack(as, fa) == fa >= as.stack_end /\ fa < as.stack_base
in_region_unchecked(as, fa) == TRUE
\* vm.c:59-100
in_region(as, fa) == FindRegion(as, fa) # 0 \/ InHeap(as, fa) \/ InStack(as, fa)
\* vm.c:74, 86, 92
region_writeable(r, loading) == r.writeable \/ loading
writeable(as, fa) ==
  IF FindRegion(as, fa) # 0
  THEN region_writeable(as.regions[FindRegion(as, fa)], as.loading)
  ELSE InHeap(as, fa) \/ InStack(as, fa)

\* vm.c:152-167  the slot tlb_write goes to: the first invalid one, or any
\* slot (random() % NUM_TLB) when all are valid
TlbTargets ==
  IF \E i \in TlbSlots : ~tlb[i].valid
  THEN {Min({i \in TlbSlots : ~tlb[i].valid})}
  ELSE TlbSlots

\* addrspace.c:252-254  as_activate's flush
TlbFlushed == [i \in TlbSlots |-> InvalidTlb]

\* ------------------------------------------------------------------ execv
\* execv_syscall.c.  __ARG_MAX is 16 pages in the kernel and more than the one
\* stack page here too; pointers keep their 4 bytes.
ARG_MAX == 40
PTR_SIZE == 4
NoPtr == -1

\* the steps of sys_execv whose callee may fail, and "none"
ExecFailPoints ==
  {"none", "path_null", "argv_null", "copyinstr_path", "empty_path",
   "kmalloc_karg", "copyin_argv", "kmalloc_kargv", "kmalloc_kargs_block",
   "vfs_open", "as_create", "load_elf_header", "load_elf_read",
   "kmalloc_arg_pointers"}

\* the user stack page of a new address space, zero-filled: b holds its bytes,
\* w the pointer written at an address (NoPtr where none was)
StackAddrs == (USERSTACK - PAGE_SIZE)..(USERSTACK - 1)
NoStack == [b |-> [a \in StackAddrs |-> 0], w |-> [a \in StackAddrs |-> NoPtr]]

NoExec ==
  [call |-> "none", err |-> 0, argc |-> 0, stackptr |-> 0, argv |-> 0,
   mem |-> NoStack]
ExecFailed(err) == [NoExec EXCEPT !.call = "execv", !.err = err]

\* vm.c:137  a page as bzero leaves it, and one a program has written to
ZeroPage == 0
UserData == 1
PageData == {ZeroPage, UserData}
NoMemBudget == [stores |-> 0, forks |-> 0, reaps |-> 0, switches |-> 0]

\* no process-level memory call in the run
MemIdle == framedata = [k \in Frames |-> ZeroPage] /\ mbudget = NoMemBudget

\* no execv call in the run
ExecIdle ==
  /\ xargs = <<>>
  /\ xenv = [fail |-> "none", touch |-> FALSE]
  /\ xret = NoExec

\* ------------------------------------------------------------------- Init
O_RDONLY == 0
O_WRONLY == 1
O_RDWR == 2

\* open_file_handler.c:13-35  create_open_file; closes and frees count the
\* vfs_close and kfree calls made on the object
create_open_file(vn, flags) ==
  [st |-> "live", offset |-> 0, flags |-> flags, file_vn |-> vn,
   reference_count |-> 1, closes |-> 0, frees |-> 0]
UnusedObj ==
  [st |-> "unused", offset |-> 0, flags |-> 0, file_vn |-> "none",
   reference_count |-> 0, closes |-> 0, frees |-> 0]

\* The state after boot and proc_create_runprogram (proc.c:282-382): one user
\* process, PID_MIN, with the console open on descriptors 0, 1 and 2.
InitCommonKernel ==
  /\ pid_table = [i \in Pids |-> IF i = PID_MIN THEN 1 ELSE NoProc]
  /\ proc = [r \in Recs |->
        IF r = 1 THEN [NoProcRec EXCEPT !.st = "live", !.p_pid = PID_MIN,
                                        !.p_threads = TRUE, !.registered = TRUE]
        ELSE NoProcRec]
  /\ file_table = [r \in Recs |->
        IF r = 1 THEN [fd \in Fds |-> IF fd < 3 THEN fd + 1 ELSE NoObj]
        ELSE EmptyTable]
  /\ obj = [f \in Objs |->
        IF f = 1 THEN create_open_file("con", O_RDONLY)
        ELSE IF f \in {2, 3} THEN create_open_file("con", O_WRONLY)
        ELSE UnusedObj]
  /\ pc = [r \in Recs |-> IF r = 1 THEN "user" ELSE "none"]
  /\ loc = [r \in Recs |-> NoLoc]
  /\ ev = NoEv
  /\ panicked = "no"
  /\ ft_lock = [r \in Recs |-> NoProc]
  /\ file_lock = [f \in Objs |-> NoProc]

\* the lock, the CV and the semaphore of the kernel threads are there, unused,
\* and vm_bootstrap has run
InitCommon ==
  InitCommonKernel /\ SynchBoot(0, 0) /\ VmBooted /\ AsIdle /\ ExecIdle /\ MemIdle

Init == InitCommon /\ budget = [forks |-> MaxProcs - 1, fileops |-> 0]

UnusedRecs == {r \in Recs : proc[r].st = "unused"}
Running == panicked = "no"

\* a thread returns to user mode with a result; a step of a system call
\* leaves the lock, the CV and the semaphore of the kernel threads alone, and
\* the coremap
ReturnFrom(t, r, pcs) ==
  /\ pc' = [pcs EXCEPT ![t] = "user"]
  /\ loc' = [loc EXCEPT ![t] = NoLoc]
  /\ ev' = [r EXCEPT !.t = t]
  /\ UNCHANGED <<lvars, svars, mvars, avars, xvars, pvars>>
Return(t, r) == ReturnFrom(t, r, pc)

\* a step that returns from no system call
NoReturn ==
  ev' = NoEv /\ UNCHANGED <<lvars, svars, mvars, avars, xvars, pvars>>

\* the kernel stops as it is: "assert" for a failed KASSERT, "crash" for the
\* outcome of a use of freed or uninitialised memory
Halt(why) ==
  /\ panicked' = why
  /\ NoReturn
  /\ UNCHANGED <<pid_table, proc, file_table, obj, pc, loc>>
Panic(why) == Halt(why) /\ UNCHANGED budget

\* ------------------------------------------------------------ proc_destroy
\* "proc_destroy(p): must hold the only reference": the thread of p has
\* detached.  threadarray_cleanup (kern/lib/array.c) asserts that the thread
\* array is empty.
OnlyReference(c) == ~proc[c].p_threads

\* What proc_destroy asserts of the record it frees (proc.c:180-183, 245-254):
\* no thread attached (threadarray_cleanup), the wait-lock free (lock_destroy,
\* synch.c:193) and nobody asleep on the wait-CV (cv_destroy).
DestroyAsserts(c) ==
  /\ OnlyReference(c)
  /\ proc[c].p_waitlock = NoProc
  /\ proc[c].p_waitcv = {}

\* proc.c:165-259  proc_destroy of record c, whose file table is ft, with the
\* open-file objects o: the file table is destroyed, the PID slot named by
\* p_pid is cleared, the record is freed
proc_destroy(c, ft, o) ==
  /\ obj' = destroy_file_table(ft, o)
  /\ file_table' = [file_table EXCEPT ![c] = EmptyTable]
  /\ pid_table' = proc_freepid(pid_table, proc[c].p_pid)
  /\ proc' = [proc EXCEPT ![c].st = "freed"]

\* ------------------------------------------------------------------- fork
\* fork_syscall.c:20-23 with proc.c:115-157  proc_create: the record is
\* allocated and whatever proc_allocpid returns becomes its p_pid
sys_fork_create(t) ==
  /\ Running /\ pc[t] = "user" /\ budget.forks > 0 /\ UnusedRecs # {}
  /\ \/ /\ Return(t, Ret("fork", ENOMEM, 0))
        /\ UNCHANGED <<pid_table, proc, file_table, obj, budget, panicked>>
     \/ LET c == Min(UnusedRecs) IN
        /\ proc' = [proc EXCEPT ![c] =
              [NoProcRec EXCEPT !.st = "live",
                                !.p_pid = proc_allocpid(pid_table),
                                !.forker = t,
                                !.registered = (FreePids(pid_table) # {})]]
        /\ pid_table' = proc_allocpid_table(pid_table, c)
        /\ pc' = [pc EXCEPT ![t] = "fork_copy"]
        /\ loc' = [loc EXCEPT ![t] = [NoLoc EXCEPT !.child = c]]
        /\ budget' = [budget EXCEPT !.forks = @ - 1]
        /\ NoReturn
        /\ UNCHANGED <<file_table, obj, panicked>>

\* fork_syscall.c:31-94  the rest of sys_fork.  On success the child gets a
\* copy of the file table, its parent's PID and a thread.  The failure paths
\* destroy the child: after as_copy fails its file_table pointer was never
\* initialised, after the later failures the address space (and the file
\* table) is destroyed twice, so the kernel either gets through or crashes.
sys_fork_copy(t) ==
  /\ Running /\ pc[t] = "fork_copy"
  /\ LET c == loc[t].child
         copied == CopyFrom(file_table[t], obj, 0) IN
     \/ /\ file_table' = [file_table EXCEPT ![c] = copy_file_table(file_table[t])]
        /\ obj' = copied
        /\ proc' = [proc EXCEPT ![c].p_parent = proc[t].p_pid,
                                ![c].p_threads = TRUE]
        /\ ReturnFrom(t, [Ret("fork", 0, proc[c].p_pid) EXCEPT !.target = c],
                      [pc EXCEPT ![c] = "user"])
        /\ UNCHANGED <<pid_table, budget, panicked>>
     \/ \E cause \in {"as_copy", "copy_file_table", "child_tf", "thread_fork"} :
        \/ /\ IF cause \in {"as_copy", "copy_file_table"}
              THEN proc_destroy(c, EmptyTable, obj)
              ELSE proc_destroy(c, copy_file_table(file_table[t]), copied)
           /\ Return(t, [Ret("fork", ENOMEM, 0) EXCEPT !.target = c])
           /\ UNCHANGED <<budget, panicked>>
        \/ Panic("crash")

\* ------------------------------------------------------------------ _exit
\* exit_syscall.c:10-16  sys__exit up to lock_acquire(p->p_waitlock)
\* (synch.c:205-211) returning
sys__exit(t) ==
  /\ Running /\ pc[t] = "user"
  /\ proc[t].p_waitlock = NoProc
  /\ proc' = [proc EXCEPT ![t].p_waitlock = t]
  /\ pc' = [pc EXCEPT ![t] = "exit_mark"]
  /\ NoReturn
  /\ UNCHANGED <<pid_table, file_table, obj, loc, budget, panicked>>

\* exit_syscall.c:17-20  under the wait-lock: the packed status is stored,
\* p_exited set, every sleeper of the wait-CV woken (synch.c:351-363), the
\* lock released
exit_mark(t) ==
  /\ Running /\ pc[t] = "exit_mark"
  /\ \E code \in ExitCodes :
       proc' = [proc EXCEPT ![t].exit_arg = code,
                            ![t].p_exitcode = ExitStatus(code),
                            ![t].p_exited = TRUE,
                            ![t].p_waitcv = {},
                            ![t].p_waitlock = NoProc]
  /\ pc' = [pc EXCEPT ![t] = "exit_thread"]
  /\ NoReturn
  /\ UNCHANGED <<pid_table, file_table, obj, loc, budget, panicked>>

\* exit_syscall.c:23  thread_exit: the thread detaches from its process
\* (proc.c:422-448 proc_remthread) and never runs again
exit_thread(t) ==
  /\ Running /\ pc[t] = "exit_thread"
  /\ proc' = [proc EXCEPT ![t].p_threads = FALSE]
  /\ pc' = [pc EXCEPT ![t] = "zombie"]
  /\ NoReturn
  /\ UNCHANGED <<pid_table, file_table, obj, loc, budget, panicked>>

\* ---------------------------------------------------------------- waitpid
WaitLookupNoOptions(tbl, pid, options) ==
  IF proc_get(tbl, pid) = NoProc THEN ESRCH ELSE 0
\* waitpid_syscall.c:15-23  the checks made before the target is touched
WaitLookup(tbl, pid, options) ==
  IF options # 0 THEN EINVAL
  ELSE IF proc_get(tbl, pid) = NoProc THEN ESRCH
  ELSE 0

WaitPermNoCheck(t, c) == 0
\* waitpid_syscall.c:26-28  the caller must be the target's parent
WaitPerm(t, c) ==
  IF proc[c].p_parent # proc[t].p_pid THEN ECHILD ELSE 0

\* the record was freed after proc_get returned it: every later use of the
\* pointer reads freed memory, which still holds the old values, or crashes
Stale(c) == proc[c].st = "freed"
StaleCrash(c) == Stale(c) /\ Panic("crash")

\* waitpid_syscall.c:12-23  entry: options, then proc_get; the arguments are
\* drawn from pids and opts
waitpid_entry(t, pids, opts) ==
  /\ Running /\ pc[t] = "user"
  /\ \E pid \in pids, options \in opts :
       LET e == WaitLookup(pid_table, pid, options) IN
       IF e # 0
       THEN /\ Return(t, WaitRet([NoLoc EXCEPT !.pid = pid,
                                                !.options = options], e, 0))
            /\ UNCHANGED <<pid_table, proc, file_table, obj, budget, panicked>>
       ELSE /\ pc' = [pc EXCEPT ![t] = "wp_parent"]
            /\ loc' = [loc EXCEPT ![t] =
                  [NoLoc EXCEPT !.child = proc_get(pid_table, pid), !.pid = pid,
                                !.options = options]]
            /\ NoReturn
            /\ UNCHANGED <<pid_table, proc, file_table, obj, budget, panicked>>

sys_waitpid(t) == waitpid_entry(t, WaitPidArgs, WaitOptions)

\* waitpid_syscall.c:26-28
wp_parent(t) ==
  /\ Running /\ pc[t] = "wp_parent"
  /\ LET c == loc[t].child IN
     \/ StaleCrash(c)
     \/ /\ IF WaitPerm(t, c) # 0
           THEN Return(t, WaitRet(loc[t], WaitPerm(t, c), 0))
           ELSE /\ pc' = [pc EXCEPT ![t] = "wp_lock"]
                /\ NoReturn
                /\ UNCHANGED loc
        /\ UNCHANGED <<pid_table, proc, file_table, obj, budget, panicked>>

\* waitpid_syscall.c:31  lock_acquire(child->p_waitlock)
wp_lock(t) ==
  /\ Running /\ pc[t] = "wp_lock"
  /\ LET c == loc[t].child IN
     \/ StaleCrash(c)
     \/ /\ proc[c].p_waitlock = NoProc
        /\ proc' = [proc EXCEPT ![c].p_waitlock = t]
        /\ pc' = [pc EXCEPT ![t] = "wp_test"]
        /\ NoReturn
        /\ UNCHANGED <<pid_table, file_table, obj, loc, budget, panicked>>

\* waitpid_syscall.c:34-40  the test of p_exited under the lock: cv_wait
\* (synch.c:306-329) releases the lock and sleeps; otherwise the status is
\* read and the lock released
wp_test(t) ==
  /\ Running /\ pc[t] = "wp_test"
  /\ LET c == loc[t].child IN
     \/ StaleCrash(c)
     \/ /\ IF ~proc[c].p_exited
           THEN /\ proc' = [proc EXCEPT ![c].p_waitcv = @ \cup {t},
                                        ![c].p_waitlock = NoProc]
                /\ pc' = [pc EXCEPT ![t] = "wp_sleep"]
                /\ UNCHANGED loc
           ELSE /\ proc' = [proc EXCEPT ![c].p_waitlock = NoProc]
                /\ pc' = [pc EXCEPT ![t] = "wp_reap"]
                /\ loc' = [loc EXCEPT ![t].code = proc[c].p_exitcode]
        /\ NoReturn
        /\ UNCHANGED <<pid_table, file_table, obj, budget, panicked>>

\* synch.c:328  a woken cv_wait takes the lock again
wp_wake(t) ==
  /\ Running /\ pc[t] = "wp_sleep"
  /\ LET c == loc[t].child IN
     \/ StaleCrash(c)
     \/ /\ t \notin proc[c].p_waitcv
        /\ proc[c].p_waitlock = NoProc
        /\ proc' = [proc EXCEPT ![c].p_waitlock = t]
        /\ pc' = [pc EXCEPT ![t] = "wp_test"]
        /\ NoReturn
        /\ UNCHANGED <<pid_table, file_table, obj, loc, budget, panicked>>

\* waitpid_syscall.c:43-54  copyout of the status (a bad pointer returns
\* EFAULT and leaves the child), then proc_destroy and the child's pid as the
\* return value
wp_reap(t) ==
  /\ Running /\ pc[t] = "wp_reap"
  /\ LET c == loc[t].child IN
     \E status \in {"null", "good", "bad"} :
       IF status = "bad"
       THEN /\ Return(t, WaitRet(loc[t], EFAULT, 0))
            /\ UNCHANGED <<pid_table, proc, file_table, obj, budget, panicked>>
       ELSE \/ StaleCrash(c)
            \/ ~DestroyAsserts(c) /\ Panic("assert")
            \/ /\ DestroyAsserts(c)
               /\ proc_destroy(c, file_table[c], obj)
               /\ Return(t, [WaitRet(loc[t], 0, loc[t].pid) EXCEPT
                     !.status = IF status = "good" THEN loc[t].code ELSE NoStatus])
               /\ UNCHANGED <<budget, panicked>>

\* ------------------------------------------------------- open-file objects
\* Every process has one thread, so its file table is used by that thread
\* alone and the table lock is never contended: what a call does while it
\* holds the table lock is one step.  The object lock's critical sections
\* (the count update of incref and decref, the transfer of read, write and
\* lseek) are one step each.  flags holds the access mode only.

\* the slot a descriptor names, NULL for a descriptor the range check rejects
\* (close_syscall.c:22-41, read_syscall.c:39-59, lseek_syscall.c:42-60,
\* dup2_syscall.c:33-35)
Slot(t, fd) == IF fd < 0 \/ fd >= OPEN_MAX THEN NoObj ELSE file_table[t][fd]

FreeFds(t) == {fd \in Fds : file_table[t][fd] = NoObj}
UnusedObjs == {f \in Objs : obj[f].st = "unused"}

\* the object was freed by another open_file_destroy: its memory still holds
\* the old values, or the kernel crashes
ObjStaleCrash(f) == obj[f].st = "freed" /\ Panic("crash")

\* the call goes on to open_file_decref(f) and returns r afterwards
StartDecref(t, f, r) ==
  /\ pc' = [pc EXCEPT ![t] = "decref_dec"]
  /\ loc' = [loc EXCEPT ![t] = [NoLoc EXCEPT !.o = f, !.ret = r]]
  /\ NoReturn

\* open_file_handler.c:65-67  open_file_decref: the decrement under the lock
open_file_decref(t) ==
  /\ Running /\ pc[t] = "decref_dec"
  /\ \/ ObjStaleCrash(loc[t].o)
     \/ /\ obj' = DecObj(obj, loc[t].o)
        /\ pc' = [pc EXCEPT ![t] = "decref_test"]
        /\ NoReturn
        /\ UNCHANGED <<pid_table, proc, file_table, loc, budget, panicked>>

\* open_file_handler.c:70-72  open_file_decref: the count is read again,
\* without the lock, to decide whether to destroy the object
open_file_decref_test(t) ==
  /\ Running /\ pc[t] = "decref_test"
  /\ \/ ObjStaleCrash(loc[t].o)
     \/ /\ IF obj[loc[t].o].reference_count = 0
           THEN /\ pc' = [pc EXCEPT ![t] = "destroy_close"]
                /\ NoReturn
                /\ UNCHANGED loc
           ELSE Return(t, loc[t].ret)
        /\ UNCHANGED <<pid_table, proc, file_table, obj, budget, panicked>>

\* open_file_handler.c:39-42  open_file_destroy: vfs_close(file->file_vn)
open_file_destroy(t) ==
  /\ Running /\ pc[t] = "destroy_close"
  /\ \/ ObjStaleCrash(loc[t].o)
     \/ /\ obj' = [obj EXCEPT ![loc[t].o].closes = @ + 1]
        /\ pc' = [pc EXCEPT ![t] = "destroy_free"]
        /\ NoReturn
        /\ UNCHANGED <<pid_table, proc, file_table, loc, budget, panicked>>

\* open_file_handler.c:45-49  open_file_destroy: lock_destroy and kfree, and
\* the call that dropped the reference returns
open_file_destroy_free(t) ==
  /\ Running /\ pc[t] = "destroy_free"
  /\ \/ ObjStaleCrash(loc[t].o)
     \/ /\ obj' = [obj EXCEPT ![loc[t].o].frees = @ + 1,
                              ![loc[t].o].st = "freed"]
        /\ Return(t, loc[t].ret)
        /\ UNCHANGED <<pid_table, proc, file_table, budget, panicked>>

\* ----------------------------------------------------------- file syscalls
\* a file system call is made, of the calls a run is allowed
FileCall == budget.fileops > 0 /\ budget' = [budget EXCEPT !.fileops = @ - 1]

LastFreeFd(t) ==
  IF FreeFds(t) # {} THEN CHOOSE x \in FreeFds(t) : \A y \in FreeFds(t) : x >= y
  ELSE OPEN_MAX
\* open_syscall.c:80-86  the slot the search loop of sys_open stops at:
\* the first NULL slot, or OPEN_MAX when there is none
FirstFreeFd(t) == IF FreeFds(t) # {} THEN Min(FreeFds(t)) ELSE OPEN_MAX

\* open_syscall.c:39-102
sys_open(t) ==
  /\ Running /\ pc[t] = "user" /\ FileCall /\ UnusedObjs # {}
  /\ \/ /\ \E e \in {EFAULT, ENOENT, ENOMEM} : Return(t, FileRet("open", 0, e, 0))
        /\ UNCHANGED <<pid_table, proc, file_table, obj, panicked>>
     \/ \E flags \in {O_RDONLY, O_WRONLY, O_RDWR} :
        LET f == Min(UnusedObjs) IN
        /\ IF FirstFreeFd(t) # OPEN_MAX
           THEN /\ obj' = [obj EXCEPT ![f] = create_open_file("file", flags)]
                /\ file_table' = [file_table EXCEPT ![t][FirstFreeFd(t)] = f]
                /\ Return(t, FileRet("open", FirstFreeFd(t), 0, FirstFreeFd(t)))
           ELSE /\ obj' = [obj EXCEPT ![f] =
                     [create_open_file("file", flags) EXCEPT
                        !.st = "freed", !.closes = 1, !.frees = 1]]
                /\ Return(t, FileRet("open", 0, EMFILE, 0))
                /\ UNCHANGED file_table
        /\ UNCHANGED <<pid_table, proc, panicked>>

\* close_syscall.c:18-55
sys_close(t) ==
  /\ Running /\ pc[t] = "user" /\ FileCall
  /\ \E fd \in FdArgs :
       IF Slot(t, fd) = NoObj
       THEN /\ Return(t, FileRet("close", fd, EBADF, 0))
            /\ UNCHANGED <<pid_table, proc, file_table, obj, panicked>>
       ELSE /\ file_table' = [file_table EXCEPT ![t][fd] = NoObj]
            /\ StartDecref(t, file_table[t][fd], FileRet("close", fd, 0, 0))
            /\ UNCHANGED <<pid_table, proc, obj, panicked>>

dup2_no_incref(o, f) == o
\* dup2_syscall.c:71  open_file_incref(old_fh)
dup2_incref(o, f) == IncObj(o, f)

\* dup2_syscall.c:29-90.  The slot is written after open_file_decref(new_fh),
\* still under the table lock; nobody else reads the table, so the write is
\* made here with the incref.
sys_dup2(t) ==
  /\ Running /\ pc[t] = "user" /\ FileCall
  /\ \E oldfd \in FdArgs, newfd \in FdArgs :
       LET bad == oldfd < 0 \/ newfd < 0 \/ oldfd >= OPEN_MAX \/ newfd >= OPEN_MAX
           old_fh == Slot(t, oldfd)
           new_fh == Slot(t, newfd)
           done == Dup2Ret(oldfd, newfd, 0, newfd) IN
       IF bad \/ (oldfd # newfd /\ old_fh = NoObj)
       THEN /\ Return(t, Dup2Ret(oldfd, newfd, EBADF, 0))
            /\ UNCHANGED <<pid_table, proc, file_table, obj, panicked>>
       ELSE IF oldfd = newfd \/ new_fh = old_fh
       THEN /\ Return(t, done)
            /\ UNCHANGED <<pid_table, proc, file_table, obj, panicked>>
       ELSE /\ obj' = dup2_incref(obj, old_fh)
            /\ file_table' = [file_table EXCEPT ![t][newfd] = old_fh]
            /\ IF new_fh # NoObj THEN StartDecref(t, new_fh, done)
                                 ELSE Return(t, done)
            /\ UNCHANGED <<pid_table, proc, panicked>>

\* read_syscall.c:37-124 and write_syscall.c:36-116 from the flags check on:
\* the temporary reference, the transfer of n bytes at the object's offset (or
\* its failure), then open_file_decref
Transfer(t, call, fd, f) ==
  \/ /\ obj' = IncObj(obj, f)
     /\ StartDecref(t, f, FileRet(call, fd, EIO, 0))
  \/ \E n \in Counts :
       /\ obj[f].offset + n <= MaxOff
       /\ obj' = [IncObj(obj, f) EXCEPT ![f].offset = @ + n]
       /\ StartDecref(t, f, FileRet(call, fd, 0, n))

\* read_syscall.c:37-124
sys_read(t) ==
  /\ Running /\ pc[t] = "user" /\ FileCall
  /\ \E fd \in FdArgs :
       IF Slot(t, fd) = NoObj \/ obj[Slot(t, fd)].flags = O_WRONLY
       THEN /\ Return(t, FileRet("read", fd, EBADF, 0))
            /\ UNCHANGED <<pid_table, proc, file_table, obj, panicked>>
       ELSE /\ Transfer(t, "read", fd, Slot(t, fd))
            /\ UNCHANGED <<pid_table, proc, file_table, panicked>>

\* write_syscall.c:39  the range check of sys_write: fd > __OPEN_MAX
WriteFdRejected(fd) == fd < 0 \/ fd > OPEN_MAX

\* write_syscall.c:48-116  sys_write got past its range check with
\* fd = OPEN_MAX: files[OPEN_MAX] is the word after the array
\* (file_table.h:15-17), the table's lock pointer, which is not NULL and is
\* used as an open-file object.  The flags read from it make the call return
\* EBADF, or the kernel crashes on what it does next.
sys_write_index(t) ==
  /\ Running /\ pc[t] = "write_index"
  /\ \/ Panic("crash")
     \/ /\ Return(t, loc[t].ret)
        /\ UNCHANGED <<pid_table, proc, file_table, obj, budget, panicked>>

\* write_syscall.c:36-116
sys_write(t) ==
  /\ Running /\ pc[t] = "user" /\ FileCall
  /\ \E fd \in FdArgs :
       IF WriteFdRejected(fd)
       THEN /\ Return(t, FileRet("write", fd, EBADF, 0))
            /\ UNCHANGED <<pid_table, proc, file_table, obj, panicked>>
       ELSE IF fd >= OPEN_MAX
       THEN /\ pc' = [pc EXCEPT ![t] = "write_index"]
            /\ loc' = [loc EXCEPT ![t] =
                  [NoLoc EXCEPT !.ret = FileRet("write", fd, EBADF, 0)]]
            /\ NoReturn
            /\ UNCHANGED <<pid_table, proc, file_table, obj, panicked>>
       ELSE IF Slot(t, fd) = NoObj \/ obj[Slot(t, fd)].flags = O_RDONLY
       THEN /\ Return(t, FileRet("write", fd, EBADF, 0))
            /\ UNCHANGED <<pid_table, proc, file_table, obj, panicked>>
       ELSE /\ Transfer(t, "write", fd, Slot(t, fd))
            /\ UNCHANGED <<pid_table, proc, file_table, panicked>>

\* off_t is a signed integer (64 bits, scaled here so that OFF_MAX is the
\* largest offset explored); a sum past OFF_MAX wraps to a negative value
OFF_MAX == MaxOff
OffT(x) == ((x + OFF_MAX + 1) % (2 * (OFF_MAX + 1))) - (OFF_MAX + 1)

new_offset_absolute(f, pos, whence, size) ==
  IF whence \in {SEEK_SET, SEEK_CUR} THEN pos
  ELSE IF whence = SEEK_END THEN OffT(size + pos)
  ELSE -1
\* lseek_syscall.c:86-113  the new offset of a seek, size being what VOP_STAT
\* reports; -1 for a whence that is none of the three
new_offset(f, pos, whence, size) ==
  IF whence = SEEK_SET THEN pos
  ELSE IF whence = SEEK_CUR THEN OffT(obj[f].offset + pos)
  ELSE IF whence = SEEK_END THEN OffT(size + pos)
  ELSE -1

LseekRet(fd, pos, whence, size, err, val) ==
  [FileRet("lseek", fd, err, val) EXCEPT !.pos = pos, !.whence = whence,
                                         !.size = size]

\* lseek_syscall.c:39-135
sys_lseek(t) ==
  /\ Running /\ pc[t] = "user" /\ FileCall
  /\ \E fd \in FdArgs, pos \in SeekPos, whence \in Whences :
     \E size \in IF whence = SEEK_END THEN 0..MaxOff ELSE {0} :
       LET f == Slot(t, fd)
           new == new_offset(f, pos, whence, size)
           ret(err, val) == LseekRet(fd, pos, whence, size, err, val) IN
       IF f = NoObj
       THEN /\ Return(t, ret(EBADF, 0))
            /\ UNCHANGED <<pid_table, proc, file_table, obj, panicked>>
       ELSE /\ IF obj[f].file_vn = "con"
               THEN /\ obj' = IncObj(obj, f)
                    /\ StartDecref(t, f, ret(ESPIPE, 0))
               ELSE \/ /\ whence = SEEK_END /\ size = 0
                       /\ obj' = IncObj(obj, f)
                       /\ StartDecref(t, f, ret(EIO, 0))
                    \/ IF new < 0
                       THEN /\ obj' = IncObj(obj, f)
                            /\ StartDecref(t, f, ret(EINVAL, 0))
                       ELSE /\ obj' = [IncObj(obj, f) EXCEPT ![f].offset = new]
                            /\ StartDecref(t, f, ret(0, new))
            /\ UNCHANGED <<pid_table, proc, file_table, panicked>>

FileStep(t) ==
  \/ sys_open(t)
  \/ sys_close(t)
  \/ sys_dup2(t)
  \/ sys_read(t)
  \/ sys_write(t)
  \/ sys_write_index(t)
  \/ sys_lseek(t)
  \/ open_file_decref(t)
  \/ open_file_decref_test(t)
  \/ open_file_destroy(t)
  \/ open_file_destroy_free(t)

\* ------------------------------------------------------------------- Next
ProcStep(t) ==
  \/ sys_fork_create(t)
  \/ sys_fork_copy(t)
  \/ sys__exit(t)
  \/ exit_mark(t)
  \/ exit_thread(t)
  \/ sys_waitpid(t)
  \/ wp_parent(t)
  \/ wp_lock(t)
  \/ wp_test(t)
  \/ wp_wake(t)
  \/ wp_reap(t)

Next == \E t \in Recs : ProcStep(t)

Spec == Init /\ [][Next]_vars

\* One parent and one child, scheduled fairly: a thread that is inside the
\* kernel and can run does run.  Whether and when a process makes a system
\* call is up to the process.
KernelStep(t) ==
  \/ sys_fork_copy(t)
  \/ exit_mark(t)
  \/ exit_thread(t)
  \/ wp_parent(t)
  \/ wp_lock(t)
  \/ wp_test(t)
  \/ wp_wake(t)
  \/ wp_reap(t)

\* Processes that also use their files; they wait for PIDs of the table
sys_waitpid_child(t) == waitpid_entry(t, Pids, {0})

FileProcStep(t) ==
  \/ sys_fork_create(t)
  \/ sys_fork_copy(t)
  \/ sys__exit(t)
  \/ exit_mark(t)
  \/ exit_thread(t)
  \/ sys_waitpid_child(t)
  \/ wp_parent(t)
  \/ wp_lock(t)
  \/ wp_test(t)
  \/ wp_wake(t)
  \/ wp_reap(t)

FileNext == \E t \in Recs : FileProcStep(t) \/ FileStep(t)
FileInit == InitCommon /\ budget = [forks |-> MaxFileForks, fileops |-> MaxFileOps]
FileSpec == FileInit /\ [][FileNext]_vars

\* One process, alone, using its files
SoloNext == \E t \in Recs : FileStep(t)
SoloInit == InitCommon /\ budget = [forks |-> 0, fileops |-> MaxSoloOps]
SoloSpec == SoloInit /\ [][SoloNext]_vars

FairInit == InitCommon /\ budget = [forks |-> MaxWaitForks, fileops |-> 0]
FairSpec == FairInit /\ [][Next]_vars /\ \A t \in Recs : WF_vars(KernelStep(t))

\* ------------------------------------------- file calls and their locks
\* The file calls once more, at the level of their lock operations: the lock
\* of the caller's file table (ft->lock) and the lock of each open-file
\* object (file->lock).  lock_acquire is taken as one step that waits until
\* the lock is free.  The descriptors are drawn from -1 .. OPEN_MAX - 1.
LkFdArgs == -1..(OPEN_MAX - 1)
LkCalls == {"read", "write", "lseek", "close"}

LkElsewhere == UNCHANGED <<svars, mvars, avars, xvars, pvars>>

\* thread t goes on inside its call
LkGoto(t, where, l) ==
  /\ pc' = [pc EXCEPT ![t] = where]
  /\ loc' = [loc EXCEPT ![t] = l]
  /\ ev' = NoEv
  /\ LkElsewhere

\* thread t returns to user mode with result r
LkReturn(t, r) ==
  /\ pc' = [pc EXCEPT ![t] = "user"]
  /\ loc' = [loc EXCEPT ![t] = NoLoc]
  /\ ev' = [r EXCEPT !.t = t]
  /\ LkElsewhere

\* the kernel stops on a use of the freed object f
LkStaleCrash(f) ==
  /\ obj[f].st = "freed"
  /\ panicked' = "crash"
  /\ ev' = NoEv
  /\ LkElsewhere
  /\ UNCHANGED <<pid_table, proc, file_table, obj, pc, loc, budget, lvars>>

\* read_syscall.c:37-48, write_syscall.c:36-46, lseek_syscall.c:39-52,
\* close_syscall.c:18-32  the call is made: the range check, then on to
\* lock_acquire(ft->lock)
lk_file_call(t) ==
  /\ Running /\ pc[t] = "user" /\ FileCall
  /\ \E call \in LkCalls, fd \in LkFdArgs :
       IF fd < 0
       THEN LkReturn(t, FileRet(call, fd, EBADF, 0))
       ELSE LkGoto(t, "lk_ft_acquire",
                   [NoLoc EXCEPT !.ret = FileRet(call, fd, 0, 0)])
  /\ UNCHANGED <<pid_table, proc, file_table, obj, panicked, lvars>>

\* dup2_syscall.c:29-49
lk_dup2_call(t) ==
  /\ Running /\ pc[t] = "user" /\ FileCall
  /\ \E oldfd \in LkFdArgs, newfd \in LkFdArgs :
       IF oldfd < 0 \/ newfd < 0
       THEN LkReturn(t, Dup2Ret(oldfd, newfd, EBADF, 0))
       ELSE IF oldfd = newfd
       THEN LkReturn(t, Dup2Ret(oldfd, newfd, 0, newfd))
       ELSE LkGoto(t, "lk_ft_acquire",
                   [NoLoc EXCEPT !.ret = Dup2Ret(oldfd, newfd, 0, newfd)])
  /\ UNCHANGED <<pid_table, proc, file_table, obj, panicked, lvars>>

\* fork_syscall.c:20-50 with proc.c:115-157  sys_fork up to its call of
\* copy_file_table: proc_create fails, or the record is there
lk_fork_call(t) ==
  /\ Running /\ pc[t] = "user" /\ budget.forks > 0 /\ UnusedRecs # {}
  /\ budget' = [budget EXCEPT !.forks = @ - 1]
  /\ \/ /\ LkReturn(t, Ret("fork", ENOMEM, 0))
        /\ UNCHANGED <<pid_table, proc>>
     \/ LET c == Min(UnusedRecs) IN
        /\ proc' = [proc EXCEPT ![c] =
              [NoProcRec EXCEPT !.st = "live",
                                !.p_pid = proc_allocpid(pid_table),
                                !.forker = t,
                                !.registered = (FreePids(pid_table) # {})]]
        /\ pid_table' = proc_allocpid_table(pid_table, c)
        /\ LkGoto(t, "lk_ft_acquire",
                  [NoLoc EXCEPT !.child = c,
                                !.ret = Ret("fork", 0, proc_allocpid(pid_table))])
  /\ UNCHANGED <<file_table, obj, panicked, lvars>>

\* lock_acquire(ft->lock): read_syscall.c:48, write_syscall.c:46,
\* lseek_syscall.c:52, close_syscall.c:32, dup2_syscall.c:49, file_table.c:67
lk_ft_acquire(t) ==
  /\ Running /\ pc[t] = "lk_ft_acquire"
  /\ ft_lock[t] = NoProc
  /\ ft_lock' = [ft_lock EXCEPT ![t] = t]
  /\ LkGoto(t, IF loc[t].ret.call = "fork" THEN "lk_copy" ELSE "lk_lookup",
            loc[t])
  /\ UNCHANGED <<pid_table, proc, file_table, obj, budget, panicked, file_lock>>

\* the access mode of the object does not allow the call
\* (read_syscall.c:63, write_syscall.c:56)
LkWrongMode(call, f) ==
  \/ call = "read" /\ obj[f].flags = O_WRONLY
  \/ call = "write" /\ obj[f].flags = O_RDONLY

\* under the table lock the slot is read: read_syscall.c:52-66,
\* write_syscall.c:48-59, lseek_syscall.c:55-60, close_syscall.c:36-46,
\* dup2_syscall.c:52-66.  The call returns (releasing the table lock), or
\* goes on to open_file_incref with the table lock held; close clears the
\* slot, releases the table lock and goes on to open_file_decref
lk_lookup(t) ==
  /\ Running /\ pc[t] = "lk_lookup"
  /\ LET r == loc[t].ret
         f == file_table[t][r.fd]
         old_fh == file_table[t][r.oldfd]
         Leave(res) == /\ ft_lock' = [ft_lock EXCEPT ![t] = NoProc]
                       /\ LkReturn(t, res)
                       /\ UNCHANGED file_table
     IN IF r.call = "dup2"
        THEN IF old_fh = NoObj
             THEN Leave([r EXCEPT !.err = EBADF, !.val = 0])
             ELSE IF f = old_fh
             THEN Leave(r)
             ELSE /\ LkGoto(t, "lk_incref_acquire", [loc[t] EXCEPT !.o = old_fh])
                  /\ UNCHANGED <<ft_lock, file_table>>
        ELSE IF f = NoObj
        THEN Leave([r EXCEPT !.err = EBADF])
        ELSE IF r.call = "close"
        THEN /\ file_table' = [file_table EXCEPT ![t][r.fd] = NoObj]
             /\ ft_lock' = [ft_lock EXCEPT ![t] = NoProc]
             /\ LkGoto(t, "lk_decref_acquire", [loc[t] EXCEPT !.o = f])
        ELSE IF LkWrongMode(r.call, f)
        THEN Leave([r EXCEPT !.err = EBADF])
        ELSE /\ LkGoto(t, "lk_incref_acquire", [loc[t] EXCEPT !.o = f])
             /\ UNCHANGED <<ft_lock, file_table>>
  /\ UNCHANGED <<pid_table, proc, obj, budget, panicked, file_lock>>

\* file_table.c:68-76 with fork_syscall.c:56-94  the loop of copy_file_table
\* at slot loc.i, under the parent's table lock: a non-null slot is copied and
\* open_file_incref called on it; after the last slot the lock is released,
\* the child gets its parent's PID and its thread, and fork returns
lk_copy(t) ==
  /\ Running /\ pc[t] = "lk_copy"
  /\ LET c == loc[t].child
         i == loc[t].i
     IN IF i >= OPEN_MAX
        THEN /\ ft_lock' = [ft_lock EXCEPT ![t] = NoProc]
             /\ proc' = [proc EXCEPT ![c].p_parent = proc[t].p_pid,
                                     ![c].p_threads = TRUE]
             /\ pc' = [pc EXCEPT ![t] = "user", ![c] = "user"]
             /\ loc' = [loc EXCEPT ![t] = NoLoc]
             /\ ev' = [loc[t].ret EXCEPT !.t = t, !.target = c]
             /\ LkElsewhere
             /\ UNCHANGED file_table
        ELSE IF file_table[t][i] = NoObj
        THEN /\ LkGoto(t, "lk_copy", [loc[t] EXCEPT !.i = i + 1])
             /\ UNCHANGED <<ft_lock, proc, file_table>>
        ELSE /\ file_table' = [file_table EXCEPT ![c][i] = file_table[t][i]]
             /\ LkGoto(t, "lk_incref_acquire",
                       [loc[t] EXCEPT !.o = file_table[t][i]])
             /\ UNCHANGED <<ft_lock, proc>>
  /\ UNCHANGED <<pid_table, obj, budget, panicked, file_lock>>

\* open_file_handler.c:55  lock_acquire(file->lock) of open_file_incref
lk_incref_acquire(t) ==
  /\ Running /\ pc[t] = "lk_incref_acquire"
  /\ \/ LkStaleCrash(loc[t].o)
     \/ /\ file_lock[loc[t].o] = NoProc
        /\ file_lock' = [file_lock EXCEPT ![loc[t].o] = t]
        /\ LkGoto(t, "lk_incref", loc[t])
        /\ UNCHANGED <<pid_table, proc, file_table, obj, budget, panicked,
                       ft_lock>>

\* open_file_handler.c:56-57  the count is raised and the object's lock
\* released; read, write and lseek go on to release the table lock
\* (read_syscall.c:74), dup2 to open_file_decref(new_fh) or to the slot
\* (dup2_syscall.c:75-86), copy_file_table to its next slot
lk_incref(t) ==
  /\ Running /\ pc[t] = "lk_incref"
  /\ LET r == loc[t].ret
         new_fh == file_table[t][r.fd]
     IN /\ obj' = IncObj(obj, loc[t].o)
        /\ file_lock' = [file_lock EXCEPT ![loc[t].o] = NoProc]
        /\ IF r.call = "fork"
           THEN LkGoto(t, "lk_copy", [loc[t] EXCEPT !.i = @ + 1])
           ELSE IF r.call = "dup2"
           THEN IF new_fh # NoObj
                THEN LkGoto(t, "lk_decref_acquire", [loc[t] EXCEPT !.o = new_fh])
                ELSE LkGoto(t, "lk_install", loc[t])
           ELSE LkGoto(t, "lk_ft_release", loc[t])
  /\ UNCHANGED <<pid_table, proc, file_table, budget, panicked, ft_lock>>

\* read_syscall.c:74, write_syscall.c:67, lseek_syscall.c:67
\* lock_release(ft->lock)
lk_ft_release(t) ==
  /\ Running /\ pc[t] = "lk_ft_release"
  /\ ft_lock' = [ft_lock EXCEPT ![t] = NoProc]
  /\ LkGoto(t, "lk_io_acquire", loc[t])
  /\ UNCHANGED <<pid_table, proc, file_table, obj, budget, panicked, file_lock>>

\* read_syscall.c:78, write_syscall.c:71, lseek_syscall.c:71
\* lock_acquire(file->lock)
lk_io_acquire(t) ==
  /\ Running /\ pc[t] = "lk_io_acquire"
  /\ \/ LkStaleCrash(loc[t].o)
     \/ /\ file_lock[loc[t].o] = NoProc
        /\ file_lock' = [file_lock EXCEPT ![loc[t].o] = t]
        /\ LkGoto(t, "lk_io", loc[t])
        /\ UNCHANGED <<pid_table, proc, file_table, obj, budget, panicked,
                       ft_lock>>

\* read_syscall.c:90-116, write_syscall.c:73-108, lseek_syscall.c:74-127
\* under the object's lock: the transfer at the object's offset or the seek,
\* or its failure; the lock is released and the call goes on to
\* open_file_decref
lk_io(t) ==
  /\ Running /\ pc[t] = "lk_io"
  /\ LET r == loc[t].ret
         f == loc[t].o
         Then(res) == LkGoto(t, "lk_decref_acquire", [loc[t] EXCEPT !.ret = res])
     IN IF r.call = "lseek"
        THEN \E pos \in SeekPos, whence \in Whences :
             \E size \in IF whence = SEEK_END THEN 0..MaxOff ELSE {0} :
               LET new == new_offset(f, pos, whence, size)
                   ret(err, val) == LseekRet(r.fd, pos, whence, size, err, val)
               IN IF obj[f].file_vn = "con"
                  THEN Then(ret(ESPIPE, 0)) /\ UNCHANGED obj
                  ELSE \/ /\ whence = SEEK_END /\ size = 0
                          /\ Then(ret(EIO, 0)) /\ UNCHANGED obj
                       \/ IF new < 0
                          THEN Then(ret(EINVAL, 0)) /\ UNCHANGED obj
                          ELSE /\ obj' = [obj EXCEPT ![f].offset = new]
                               /\ Then(ret(0, new))
        ELSE \/ Then([r EXCEPT !.err = EIO]) /\ UNCHANGED obj
             \/ \E n \in Counts :
                  /\ obj[f].offset + n <= MaxOff
                  /\ obj' = [obj EXCEPT ![f].offset = @ + n]
                  /\ Then([r EXCEPT !.val = n])
  /\ file_lock' = [file_lock EXCEPT ![loc[t].o] = NoProc]
  /\ UNCHANGED <<pid_table, proc, file_table, budget, panicked, ft_lock>>

\* open_file_handler.c:65  lock_acquire(file->lock) of open_file_decref
lk_decref_acquire(t) ==
  /\ Running /\ pc[t] = "lk_decref_acquire"
  /\ \/ LkStaleCrash(loc[t].o)
     \/ /\ file_lock[loc[t].o] = NoProc
        /\ file_lock' = [file_lock EXCEPT ![loc[t].o] = t]
        /\ LkGoto(t, "lk_decref", loc[t])
        /\ UNCHANGED <<pid_table, proc, file_table, obj, budget, panicked,
                       ft_lock>>

\* open_file_handler.c:66-67  the count is lowered and the lock released
lk_decref(t) ==
  /\ Running /\ pc[t] = "lk_decref"
  /\ obj' = DecObj(obj, loc[t].o)
  /\ file_lock' = [file_lock EXCEPT ![loc[t].o] = NoProc]
  /\ LkGoto(t, "lk_decref_test", loc[t])
  /\ UNCHANGED <<pid_table, proc, file_table, budget, panicked, ft_lock>>

\* open_file_decref has returned: dup2 goes on to the slot, every other call
\* returns
LkDecrefDone(t) ==
  IF loc[t].ret.call = "dup2"
  THEN LkGoto(t, "lk_install", loc[t])
  ELSE LkReturn(t, loc[t].ret)

\* open_file_handler.c:70-72  the count is read again, without the lock
lk_decref_test(t) ==
  /\ Running /\ pc[t] = "lk_decref_test"
  /\ \/ LkStaleCrash(loc[t].o)
     \/ /\ IF obj[loc[t].o].reference_count = 0
           THEN LkGoto(t, "lk_destroy", loc[t])
           ELSE LkDecrefDone(t)
        /\ UNCHANGED <<pid_table, proc, file_table, obj, budget, panicked,
                       lvars>>

\* open_file_handler.c:39-50  open_file_destroy: vfs_close, lock_destroy
\* (which asserts that the lock has no owner, synch.c:190) and kfree
lk_destroy(t) ==
  /\ Running /\ pc[t] = "lk_destroy"
  /\ LET f == loc[t].o IN
     \/ LkStaleCrash(f)
     \/ /\ obj[f].st # "freed" /\ file_lock[f] # NoProc
        /\ panicked' = "assert"
        /\ ev' = NoEv
        /\ LkElsewhere
        /\ UNCHANGED <<pid_table, proc, file_table, obj, pc, loc, budget, lvars>>
     \/ /\ file_lock[f] = NoProc
        /\ obj' = [obj EXCEPT ![f].closes = @ + 1, ![f].frees = @ + 1,
                              ![f].st = "freed"]
        /\ LkDecrefDone(t)
        /\ UNCHANGED <<pid_table, proc, file_table, budget, panicked, lvars>>

\* dup2_syscall.c:81-89  the slot gets old_fh, the table lock is released
lk_install(t) ==
  /\ Running /\ pc[t] = "lk_install"
  /\ file_table' = [file_table EXCEPT
                      ![t][loc[t].ret.fd] = file_table[t][loc[t].ret.oldfd]]
  /\ ft_lock' = [ft_lock EXCEPT ![t] = NoProc]
  /\ LkReturn(t, loc[t].ret)
  /\ UNCHANGED <<pid_table, proc, obj, budget, panicked, file_lock>>

\* what a thread does inside a file call
LkKernelStep(t) ==
  \/ lk_ft_acquire(t)
  \/ lk_lookup(t)
  \/ lk_copy(t)
  \/ lk_incref_acquire(t)
  \/ lk_incref(t)
  \/ lk_ft_release(t)
  \/ lk_io_acquire(t)
  \/ lk_io(t)
  \/ lk_decref_acquire(t)
  \/ lk_decref(t)
  \/ lk_decref_test(t)
  \/ lk_destroy(t)
  \/ lk_install(t)

LkCall(t) == lk_file_call(t) \/ lk_dup2_call(t) \/ lk_fork_call(t)

LockNext == \E t \in Recs : LkCall(t) \/ LkKernelStep(t)
LockInit ==
  InitCommon /\ budget = [forks |-> MaxLockForks, fileops |-> MaxLockOps]
LockSpec == LockInit /\ [][LockNext]_vars

\* The same with fair scheduling: a thread inside a file call that can run
\* does run
LockFairSpec == LockSpec /\ \A t \in Recs : WF_vars(LkKernelStep(t))

\* ------------------------------------------------- semaphore, lock and CV
\* Callers keep to the rules of the primitives: lock_release, cv_wait,
\* cv_signal and cv_broadcast are called by a thread that holds the lock, and
\* lock_acquire by one that does not.

\* synch.c:88-99  a thread calls P(sem)
P(t) ==
  /\ Call(t, "P", "P_spin")
  /\ UNCHANGED <<sem_count, sem_lock, sem_wchan, lk_owner, cv_lock, cv_wchan,
                 holds>>

\* synch.c:102  spinlock_acquire(&sem->sem_lock)
P_spinlock(t) ==
  /\ At(t, "P_spin")
  /\ spinlock_free(sem_lock[SemOf(t)])
  /\ sem_lock' = [sem_lock EXCEPT ![SemOf(t)] = t]
  /\ SyncStep(t, "P_test")
  /\ UNCHANGED <<sem_count, sem_wchan, lk_owner, cv_lock, cv_wchan, holds, hist>>

\* the count P leaves: one less
P_no_decrement(n) == n
P_decrement(n) == n - 1

\* synch.c:103-120  the test of the count under the spinlock: zero sends the
\* thread to wchan_sleep; otherwise the count is decremented, the spinlock
\* released and P returns (to lock_acquire for the lock's semaphore)
P_test(t) ==
  /\ At(t, "P_test")
  /\ LET s == SemOf(t) IN
     IF sem_count[s] = 0
     THEN /\ SyncStep(t, "P_enq")
          /\ UNCHANGED <<sem_count, sem_lock, sem_wchan, hist>>
     ELSE /\ sem_count' = [sem_count EXCEPT ![s] = P_decrement(@)]
          /\ sem_lock' = [sem_lock EXCEPT ![s] = NoThread]
          /\ UNCHANGED sem_wchan
          /\ IF th[t].op = "P"
             THEN /\ SyncReturn(t)
                  /\ hist' = [hist EXCEPT !.nP = @ + 1]
             ELSE /\ SyncStep(t, "acq_owner")
                  /\ UNCHANGED hist
  /\ UNCHANGED <<lk_owner, cv_lock, cv_wchan, holds>>

\* synch.c:116  wchan_sleep(sem->sem_wchan, &sem->sem_lock): the thread goes
\* on the wait channel and lets go of the spinlock in one step
P_sleep(t) ==
  /\ At(t, "P_enq")
  /\ sem_wchan' = [sem_wchan EXCEPT ![SemOf(t)] = @ \cup {t}]
  /\ sem_lock' = [sem_lock EXCEPT ![SemOf(t)] = NoThread]
  /\ SyncStep(t, "P_sleep")
  /\ UNCHANGED <<sem_count, lk_owner, cv_lock, cv_wchan, holds, hist>>

\* synch.c:116  a woken wchan_sleep takes the spinlock again and returns to
\* the test of the loop
P_wakeup(t) ==
  /\ At(t, "P_sleep")
  /\ t \notin sem_wchan[SemOf(t)]
  /\ spinlock_free(sem_lock[SemOf(t)])
  /\ sem_lock' = [sem_lock EXCEPT ![SemOf(t)] = t]
  /\ SyncStep(t, "P_test")
  /\ UNCHANGED <<sem_count, sem_wchan, lk_owner, cv_lock, cv_wchan, holds, hist>>

\* synch.c:123-126  a thread calls V(sem)
V(t) ==
  /\ Call(t, "V", "V_spin")
  /\ UNCHANGED <<sem_count, sem_lock, sem_wchan, lk_owner, cv_lock, cv_wchan,
                 holds>>

\* synch.c:128  spinlock_acquire(&sem->sem_lock)
V_spinlock(t) ==
  /\ At(t, "V_spin")
  /\ spinlock_free(sem_lock[SemOf(t)])
  /\ sem_lock' = [sem_lock EXCEPT ![SemOf(t)] = t]
  /\ SyncStep(t, "V_inc")
  /\ UNCHANGED <<sem_count, sem_wchan, lk_owner, cv_lock, cv_wchan, holds, hist>>

\* synch.c:130-134  the count goes up, one sleeper is woken, the spinlock is
\* released and V returns (into cv_wait when cv_wait released the lock)
V_inc(t) ==
  /\ At(t, "V_inc")
  /\ LET s == SemOf(t) IN
     /\ sem_count' = [sem_count EXCEPT ![s] = @ + 1]
     /\ \E wc \in wchan_wakeone(sem_wchan[s]) :
          sem_wchan' = [sem_wchan EXCEPT ![s] = wc]
     /\ sem_lock' = [sem_lock EXCEPT ![s] = NoThread]
  /\ IF th[t].op = "cv_wait" THEN SyncStep(t, "cvw_enq") ELSE SyncReturn(t)
  /\ hist' = IF th[t].op = "V" THEN [hist EXCEPT !.nV = @ + 1] ELSE hist
  /\ UNCHANGED <<lk_owner, cv_lock, cv_wchan, holds>>

\* synch.c:205-209  a thread that does not hold the lock calls lock_acquire
lock_acquire(t) ==
  /\ t \notin holds
  /\ Call(t, "lock_acquire", "P_spin")
  /\ UNCHANGED <<sem_count, sem_lock, sem_wchan, lk_owner, cv_lock, cv_wchan,
                 holds>>

\* synch.c:210  lock->lk_owner = curthread, and lock_acquire returns (out of
\* cv_wait when cv_wait took the lock again)
lock_acquire_owner(t) ==
  /\ At(t, "acq_owner")
  /\ lk_owner' = t
  /\ holds' = holds \cup {t}
  /\ SyncReturn(t)
  /\ UNCHANGED <<sem_count, sem_lock, sem_wchan, cv_lock, cv_wchan, hist>>

\* synch.c:215-216  a thread in its critical section calls lock_release; the
\* call costs nothing of the calls allowed
lock_release(t) ==
  /\ At(t, "idle") /\ t \in holds
  /\ holds' = holds \ {t}
  /\ th' = [th EXCEPT ![t] = [op |-> "lock_release", pc |-> "rel_check"]]
  /\ returned' = NoDone
  /\ UNCHANGED <<kvars, mvars, avars, xvars, pvars>>
  /\ UNCHANGED <<sem_count, sem_lock, sem_wchan, lk_owner, cv_lock, cv_wchan,
                 hist>>

release_skipped(t) == FALSE
\* synch.c:219  lock->lk_owner == curthread
release_test(t) == lk_owner = t

\* synch.c:219-225  the owner test of lock_release: the owner resets the
\* field and goes on to V; any other thread does nothing
lock_release_owner(t) ==
  /\ At(t, "rel_check")
  /\ IF release_test(t)
     THEN /\ lk_owner' = NoThread
          /\ SyncStep(t, "V_spin")
     ELSE /\ UNCHANGED lk_owner
          /\ IF th[t].op = "cv_wait" THEN SyncStep(t, "cvw_enq") ELSE SyncReturn(t)
  /\ UNCHANGED <<sem_count, sem_lock, sem_wchan, cv_lock, cv_wchan, holds, hist>>

cv_lock_ignored == TRUE
\* synch.c:316, 342, 358  spinlock_acquire(&cv->cv_lock) gets the spinlock
\* when nobody holds it
cv_lock_free == spinlock_free(cv_lock)

\* synch.c:306-313  a thread that holds the lock calls cv_wait
cv_wait(t) ==
  /\ t \in holds /\ lk_owner = t
  /\ Call(t, "cv_wait", "cvw_spin")
  /\ UNCHANGED <<sem_count, sem_lock, sem_wchan, lk_owner, cv_lock, cv_wchan,
                 holds>>

\* synch.c:316-319  spinlock_acquire(&cv->cv_lock), then the call of
\* lock_release(lock)
cv_wait_spinlock(t) ==
  /\ At(t, "cvw_spin")
  /\ cv_lock_free
  /\ cv_lock' = t
  /\ holds' = holds \ {t}
  /\ SyncStep(t, "rel_check")
  /\ UNCHANGED <<sem_count, sem_lock, sem_wchan, lk_owner, cv_wchan, hist>>

\* synch.c:322  wchan_sleep(cv->cv_wchan, &cv->cv_lock): the thread goes on
\* the wait channel and lets go of the spinlock in one step
cv_wait_sleep(t) ==
  /\ At(t, "cvw_enq")
  /\ cv_wchan' = cv_wchan \cup {t}
  /\ cv_lock' = NoThread
  /\ SyncStep(t, "cvw_sleep")
  /\ UNCHANGED <<sem_count, sem_lock, sem_wchan, lk_owner, holds, hist>>

\* synch.c:322  a woken wchan_sleep takes the spinlock again and returns
cv_wait_wakeup(t) ==
  /\ At(t, "cvw_sleep")
  /\ t \notin cv_wchan
  /\ cv_lock_free
  /\ cv_lock' = t
  /\ SyncStep(t, "cvw_unspin")
  /\ UNCHANGED <<sem_count, sem_lock, sem_wchan, lk_owner, cv_wchan, holds, hist>>

\* synch.c:325-328  spinlock_release(&cv->cv_lock), then lock_acquire(lock)
cv_wait_reacquire(t) ==
  /\ At(t, "cvw_unspin")
  /\ cv_lock' = NoThread
  /\ SyncStep(t, "P_spin")
  /\ UNCHANGED <<sem_count, sem_lock, sem_wchan, lk_owner, cv_wchan, holds, hist>>

\* synch.c:335-340  a thread that holds the lock calls cv_signal
cv_signal(t) ==
  /\ t \in holds /\ lk_owner = t
  /\ Call(t, "cv_signal", "sig_spin")
  /\ UNCHANGED <<sem_count, sem_lock, sem_wchan, lk_owner, cv_lock, cv_wchan,
                 holds>>

\* synch.c:351-356  a thread that holds the lock calls cv_broadcast
cv_broadcast(t) ==
  /\ t \in holds /\ lk_owner = t
  /\ Call(t, "cv_broadcast", "sig_spin")
  /\ UNCHANGED <<sem_count, sem_lock, sem_wchan, lk_owner, cv_lock, cv_wchan,
                 holds>>

\* synch.c:342, 358  spinlock_acquire(&cv->cv_lock)
cv_signal_spinlock(t) ==
  /\ At(t, "sig_spin")
  /\ cv_lock_free
  /\ cv_lock' = t
  /\ SyncStep(t, "sig_wake")
  /\ UNCHANGED <<sem_count, sem_lock, sem_wchan, lk_owner, cv_wchan, holds, hist>>

cv_signal_wakes_all(wc) == wchan_wakeall(wc)
\* synch.c:343  wchan_wakeone(cv->cv_wchan, &cv->cv_lock)
cv_signal_wake(wc) == wchan_wakeone(wc)
\* synch.c:359  wchan_wakeall(cv->cv_wchan, &cv->cv_lock)
cv_broadcast_wake(wc) == wchan_wakeall(wc)

\* synch.c:343-344, 359-360  the wake-up under the spinlock, its release,
\* and the return of cv_signal or cv_broadcast
cv_wake(t) ==
  /\ At(t, "sig_wake")
  /\ cv_wchan' \in IF th[t].op = "cv_signal" THEN cv_signal_wake(cv_wchan)
                   ELSE cv_broadcast_wake(cv_wchan)
  /\ cv_lock' = NoThread
  /\ SyncReturn(t)
  /\ UNCHANGED <<sem_count, sem_lock, sem_wchan, lk_owner, holds, hist>>

\* what a thread does inside a primitive
SynchKernelStep(t) ==
  \/ P_spinlock(t)
  \/ P_test(t)
  \/ P_sleep(t)
  \/ P_wakeup(t)
  \/ V_spinlock(t)
  \/ V_inc(t)
  \/ lock_acquire_owner(t)
  \/ lock_release_owner(t)
  \/ cv_wait_spinlock(t)
  \/ cv_wait_sleep(t)
  \/ cv_wait_wakeup(t)
  \/ cv_wait_reacquire(t)
  \/ cv_signal_spinlock(t)
  \/ cv_wake(t)

\* the calls a thread makes
SynchCall(t) ==
  \/ P(t)
  \/ V(t)
  \/ lock_acquire(t)
  \/ lock_release(t)
  \/ cv_wait(t)
  \/ cv_signal(t)
  \/ cv_broadcast(t)

SynchNext == \E t \in Threads : SynchCall(t) \/ SynchKernelStep(t)

\* the user process is there and makes no system call
KernelIdle == InitCommonKernel /\ budget = [forks |-> 0, fileops |-> 0]

SynchInit ==
  /\ KernelIdle /\ VmBooted /\ AsIdle /\ ExecIdle /\ MemIdle
  /\ \E initial \in 0..MaxSemInit : SynchBoot(initial, MaxSyncOps)
SynchSpec == SynchInit /\ [][SynchNext]_vars

\* The same threads scheduled fairly: a thread inside a primitive that can
\* run does run, and a thread in its critical section leaves it.  Which
\* primitive a thread calls next is up to the thread.
SynchFairInit ==
  /\ KernelIdle /\ VmBooted /\ AsIdle /\ ExecIdle /\ MemIdle
  /\ SynchBoot(0, MaxFairSyncOps)
SynchFairSpec ==
  /\ SynchFairInit /\ [][SynchNext]_vars
  /\ \A t \in Threads : WF_vars(SynchKernelStep(t)) /\ WF_vars(lock_release(t))

\* ------------------------------------------------------ coremap allocator
\* Every call works on the coremap under coremap_lock from start to end, so a
\* call is one step.

\* coremap.c:41-81
vm_bootstrap ==
  /\ VmRecord
  /\ VmRunning /\ ~coremap_ready
  /\ coremap' = [i \in Frames |-> FreeEntry]
  /\ coremap_ready' = TRUE
  /\ vmcall' = VmRet("vm_bootstrap", 0, NoFrame)
  /\ UNCHANGED <<kvars, svars, avars, xvars, pvars>>

\* coremap.c:88-94, 157-163  before vm_bootstrap the allocators take memory
\* from ram_stealmem and the free functions do nothing
vm_early ==
  /\ VmRecord
  /\ VmRunning /\ ~coremap_ready
  /\ \E call \in {"alloc_page", "alloc_kpages", "free_page", "free_kpages"} :
       vmcall' = VmRet(call, 0, BelowFirst)
  /\ UNCHANGED <<coremap, coremap_ready, kvars, svars, avars, xvars, pvars>>

\* coremap.c:85-117
alloc_page ==
  /\ VmRecord
  /\ VmRunning /\ coremap_ready
  /\ LET i == FirstFree(coremap) IN
     /\ coremap' = IF i = NoFrame THEN coremap
                   ELSE [coremap EXCEPT ![i] = [free |-> FALSE, block_size |-> 1]]
     /\ vmcall' = VmRet("alloc_page", 1, i)
  /\ UNCHANGED <<coremap_ready, kvars, svars, avars, xvars, pvars>>

\* coremap.c:121-147
free_page ==
  /\ VmRecord
  /\ VmRunning /\ coremap_ready
  /\ \E cm_idx \in FrameArgs :
       IF cm_idx = BelowFirst
       THEN /\ vmcall' = VmRet("free_page", cm_idx, NoFrame)
            /\ UNCHANGED <<coremap, coremap_ready>>
       ELSE IF cm_idx >= TotalPages \/ coremap[cm_idx].block_size # 1
       THEN VmHalt("free_page", cm_idx)
       ELSE /\ coremap' = [coremap EXCEPT ![cm_idx] = FreeEntry]
            /\ vmcall' = VmRet("free_page", cm_idx, NoFrame)
            /\ UNCHANGED coremap_ready
  /\ UNCHANGED <<kvars, svars, avars, xvars, pvars>>

\* coremap.c:153-210
alloc_kpages ==
  /\ VmRecord
  /\ VmRunning /\ coremap_ready
  /\ \E npages \in NPagesArgs :
       LET i == FirstRun(coremap, npages) IN
       /\ coremap' = IF i = NoFrame THEN coremap ELSE MarkRun(coremap, i, npages)
       /\ vmcall' = VmRet("alloc_kpages", npages, i)
  /\ UNCHANGED <<coremap_ready, kvars, svars, avars, xvars, pvars>>

\* coremap.c:214-253
free_kpages ==
  /\ VmRecord
  /\ VmRunning /\ coremap_ready
  /\ \E index \in FrameArgs :
       IF index = BelowFirst
       THEN /\ vmcall' = VmRet("free_kpages", index, NoFrame)
            /\ UNCHANGED <<coremap, coremap_ready>>
       ELSE IF index >= TotalPages \/ coremap[index].block_size = 0
       THEN VmHalt("free_kpages", index)
       ELSE /\ coremap' = FreeRun(coremap, index, coremap[index].block_size)
            /\ vmcall' = VmRet("free_kpages", index, NoFrame)
            /\ UNCHANGED coremap_ready
  /\ UNCHANGED <<kvars, svars, avars, xvars, pvars>>

VmNext ==
  \/ vm_bootstrap
  \/ vm_early
  \/ alloc_page
  \/ free_page
  \/ alloc_kpages
  \/ free_kpages

\* the kernel before vm_bootstrap: coremap is NULL, no entry exists yet
VmInit ==
  /\ KernelIdle /\ SynchBoot(0, 0) /\ AsIdle /\ ExecIdle /\ MemIdle
  /\ coremap = [i \in Frames |-> FreeEntry]
  /\ coremap_ready = FALSE
  /\ vmcall = NoVmCall
  /\ vmprev = NoVmCall
  /\ vmbefore = coremap
VmSpec == VmInit /\ [][VmNext]_vars

\* ---------------------------------------------------------- address space
\* The calls work on the current process's address space, as load_elf, the
\* trap handler and the system calls do (as = proc_getas()).
TheAs == addrspaces[curas]
SetAs(as) == addrspaces' = [addrspaces EXCEPT ![curas] = as]
HasAs == VmRunning /\ curas # NoAs

\* the segments an executable may name: read-only text in the first half of
\* a page, a writable segment that starts in the second half of that page, a
\* writable segment in a page of its own, and a read-only segment right under
\* the stack page
RegionArgs ==
  {[vaddr |-> PAGE_SIZE, sz |-> 2, writeable |-> FALSE],
   [vaddr |-> PAGE_SIZE + 2, sz |-> PAGE_SIZE, writeable |-> TRUE],
   [vaddr |-> 2 * PAGE_SIZE, sz |-> PAGE_SIZE, writeable |-> TRUE],
   [vaddr |-> USERSTACK - 2 * PAGE_SIZE, sz |-> PAGE_SIZE, writeable |-> FALSE]}

\* the addresses faults are taken at: the null page, the segments, the pages
\* after them, the stack page, kernel addresses
FaultAddrs ==
  {0, PAGE_SIZE + 1, 2 * PAGE_SIZE, 3 * PAGE_SIZE - 1, 3 * PAGE_SIZE,
   4 * PAGE_SIZE, USERSTACK - 2 * PAGE_SIZE, USERSTACK - PAGE_SIZE,
   USERSTACK - 1, USERSTACK, VADDR_SPACE - PAGE_SIZE}
FaultTypes == {VM_FAULT_READ, VM_FAULT_WRITE, VM_FAULT_READONLY}

\* addrspace.c:286-291  the page-aligned base and page count of a segment
AlignedBase(vaddr) == PageOf(vaddr)
AlignedPages(vaddr, sz) ==
  PageOf(U32(U32(sz + (vaddr % PAGE_SIZE)) + PAGE_SIZE - 1)) \div PAGE_SIZE

\* addrspace.c:280-318
as_define_region ==
  /\ HasAs /\ Len(TheAs.regions) < MaxRegions
  /\ \E a \in RegionArgs, kmalloc_ok \in BOOLEAN :
       IF ~kmalloc_ok
       THEN /\ aret' = AsRet("as_define_region", ENOMEM)
            /\ UNCHANGED addrspaces
       ELSE LET r == [vbase |-> AlignedBase(a.vaddr),
                      npages |-> AlignedPages(a.vaddr, a.sz),
                      writeable |-> a.writeable]
                reg_end == RegionEnd(r)
                moved == TheAs.heap_base = 0 \/ reg_end > TheAs.heap_base
            IN /\ SetAs([TheAs EXCEPT
                    !.regions = <<r>> \o @,
                    !.heap_base = IF moved THEN reg_end ELSE @,
                    !.heap_end = IF moved THEN reg_end ELSE @])
               /\ aret' = AsRet("as_define_region", 0)
  /\ UNCHANGED <<curas, tlb, abudget, kvars, svars, mvars, xvars, pvars>>

\* addrspace.c:344-355
as_define_stack ==
  /\ HasAs
  /\ SetAs([TheAs EXCEPT !.stack_base = USERSTACK,
                         !.stack_end = USERSTACK - PAGE_SIZE])
  /\ aret' = [AsRet("as_define_stack", 0) EXCEPT !.val = USERSTACK]
  /\ UNCHANGED <<curas, tlb, abudget, kvars, svars, mvars, xvars, pvars>>

\* addrspace.c:321-329
as_prepare_load ==
  /\ HasAs
  /\ SetAs([TheAs EXCEPT !.loading = TRUE])
  /\ aret' = AsRet("as_prepare_load", 0)
  /\ UNCHANGED <<curas, tlb, abudget, kvars, svars, mvars, xvars, pvars>>

\* addrspace.c:333-341, with the as_activate it calls (235-258)
as_complete_load ==
  /\ HasAs
  /\ SetAs([TheAs EXCEPT !.loading = FALSE])
  /\ tlb' = TlbFlushed
  /\ aret' = AsRet("as_complete_load", 0)
  /\ UNCHANGED <<curas, abudget, kvars, svars, mvars, xvars, pvars>>

\* vm.c:39-172
vm_fault ==
  /\ VmRunning /\ coremap_ready /\ abudget.faults > 0
  /\ abudget' = [abudget EXCEPT !.faults = @ - 1]
  /\ \E faulttype \in FaultTypes, addr \in FaultAddrs :
       LET faultaddress == PageOf(addr)
           Fail(err) == /\ aret' = FaultRet(faulttype, addr, err)
                        /\ UNCHANGED <<addrspaces, tlb, mvars>>
       IN
       IF curas = NoAs THEN Fail(EFAULT)
       ELSE IF ~in_region(TheAs, faultaddress) THEN Fail(EFAULT)
       ELSE IF faulttype = VM_FAULT_READONLY /\ ~writeable(TheAs, faultaddress)
       THEN Fail(EFAULT)
       ELSE
         LET l1 == L1Index(faultaddress)
             frame == FirstFree(coremap)
         IN
         \* vm.c:115-119  kmalloc of the level-2 table may fail
         \/ /\ l1 \notin TheAs.pt_l1
            /\ Fail(ENOMEM)
         \/ IF TheAs.pt[faultaddress] # NoFrame
            THEN \* vm.c:127  the page has its frame
                 /\ \E i \in TlbTargets :
                      tlb' = [tlb EXCEPT ![i] =
                                [valid |-> TRUE, vpn |-> faultaddress,
                                 frame |-> TheAs.pt[faultaddress],
                                 dirty |-> writeable(TheAs, faultaddress)]]
                 /\ aret' = FaultRet(faulttype, addr, 0)
                 /\ UNCHANGED <<addrspaces, mvars>>
            ELSE \* vm.c:129-141  first access: alloc_page
                 /\ VmRecord
                 /\ vmcall' = VmRet("alloc_page", 1, frame)
                 /\ UNCHANGED coremap_ready
                 /\ IF frame = NoFrame
                    THEN /\ SetAs([TheAs EXCEPT !.pt_l1 = @ \cup {l1}])
                         /\ aret' = FaultRet(faulttype, addr, ENOMEM)
                         /\ UNCHANGED <<coremap, tlb>>
                    ELSE /\ coremap' = [coremap EXCEPT ![frame] =
                                          [free |-> FALSE, block_size |-> 1]]
                         /\ SetAs([TheAs EXCEPT
                              !.pt_l1 = @ \cup {l1},
                              !.pt = [@ EXCEPT ![faultaddress] = frame]])
                         /\ \E i \in TlbTargets :
                              tlb' = [tlb EXCEPT ![i] =
                                [valid |-> TRUE, vpn |-> faultaddress,
                                 frame |-> frame,
                                 dirty |-> writeable(TheAs, faultaddress)]]
                         /\ aret' = FaultRet(faulttype, addr, 0)
  \* vm.c:137  bzero of the frame just allocated
  /\ framedata' = [k \in Frames |->
                     IF coremap[k].free /\ ~coremap'[k].free
                     THEN ZeroPage ELSE framedata[k]]
  /\ UNCHANGED <<curas, mbudget, kvars, svars, xvars>>

AsNext ==
  \/ as_define_region
  \/ as_define_stack
  \/ as_prepare_load
  \/ as_complete_load
  \/ vm_fault

\* a process with a new, empty address space (as_create), or a kernel thread
\* without one
AsInit ==
  /\ KernelIdle /\ SynchBoot(0, 0) /\ VmBooted
  /\ \/ /\ curas = 1
        /\ addrspaces = [i \in AsIds |-> IF i = 1 THEN NewAs ELSE NoAddrspace]
     \/ /\ curas = NoAs
        /\ addrspaces = [i \in AsIds |-> NoAddrspace]
  /\ tlb = TlbFlushed
  /\ aret = NoAsCall
  /\ abudget = [faults |-> MaxFaults, sbrks |-> 0]
  /\ ExecIdle /\ MemIdle
AsSpec == AsInit /\ [][AsNext]_vars

\* ------------------------------------------------------------------- sbrk
\* intptr_t, scaled with vaddr_t: the least and the greatest value, and the
\* amounts around zero, around a page and around the room under the stack
SbrkAmounts ==
  {-(VADDR_SPACE \div 2), -(USERSTACK - PAGE_SIZE), -(PAGE_SIZE + 1),
   -PAGE_SIZE, -1, 0, 1, PAGE_SIZE - 1, PAGE_SIZE, PAGE_SIZE + 1,
   3 * PAGE_SIZE - 1, 3 * PAGE_SIZE, 4 * PAGE_SIZE, (VADDR_SPACE \div 2) - 1}
SbrkRet(amount, err, val) ==
  [NoAsCall EXCEPT !.call = "sbrk", !.amount = amount, !.err = err, !.val = val]

sbrk_retval_new(old_end, new_end) == new_end
\* sbrk_syscall.c:22  *retval = as->heap_end, before heap_end changes
sbrk_retval(old_end, new_end) == old_end

\* sbrk_syscall.c:35  vaddr_t new_end = old_end + amount
sbrk_new_end(old_end, amount) == U32(old_end + amount + VADDR_SPACE)

\* sbrk_syscall.c:39
sbrk_wraps(old_end, new_end, amount) ==
  (amount > 0 /\ new_end < old_end) \/ (amount < 0 /\ new_end > old_end)

hits_stack_past(new_end, stack_end) == new_end > stack_end
\* sbrk_syscall.c:50
hits_stack(new_end, stack_end) == new_end >= stack_end

\* sbrk_syscall.c:15-57
sys_sbrk ==
  /\ VmRunning /\ abudget.sbrks > 0
  /\ abudget' = [abudget EXCEPT !.sbrks = @ - 1]
  /\ \E amount \in SbrkAmounts :
       IF curas = NoAs
       THEN /\ aret' = SbrkRet(amount, ENOMEM, 0)
            /\ UNCHANGED addrspaces
       ELSE LET old_end == TheAs.heap_end
                new_end == sbrk_new_end(old_end, amount)
                Fail(err) ==
                  /\ aret' = SbrkRet(amount, err, old_end)
                  /\ UNCHANGED addrspaces
            IN IF amount = 0
               THEN /\ aret' = SbrkRet(amount, 0, old_end)
                    /\ UNCHANGED addrspaces
               ELSE IF sbrk_wraps(old_end, new_end, amount) THEN Fail(ENOMEM)
               ELSE IF new_end < TheAs.heap_base THEN Fail(EINVAL)
               ELSE IF hits_stack(new_end, TheAs.stack_end) THEN Fail(ENOMEM)
               ELSE /\ SetAs([TheAs EXCEPT !.heap_end = new_end])
                    /\ aret' = SbrkRet(amount, 0, sbrk_retval(old_end, new_end))
  /\ UNCHANGED <<curas, tlb, kvars, svars, mvars, xvars, pvars>>

SbrkNext ==
  \/ as_define_region
  \/ as_define_stack
  \/ sys_sbrk

SbrkInit ==
  /\ KernelIdle /\ SynchBoot(0, 0) /\ VmBooted
  /\ \/ /\ curas = 1
        /\ addrspaces = [i \in AsIds |-> IF i = 1 THEN NewAs ELSE NoAddrspace]
     \/ /\ curas = NoAs
        /\ addrspaces = [i \in AsIds |-> NoAddrspace]
  /\ tlb = TlbFlushed
  /\ aret = NoAsCall
  /\ abudget = [faults |-> 0, sbrks |-> MaxSbrks]
  /\ ExecIdle /\ MemIdle
SbrkSpec == SbrkInit /\ [][SbrkNext]_vars

\* ------------------------------------------------------------------ execv
\* execv_syscall.c:89  the budget check made when a string has been measured:
\* total_bytes holds its bytes already, argc does not count it yet
budget_exceeded(total_bytes, argc) ==
  total_bytes + (argc + 1) * PTR_SIZE > ARG_MAX

RECURSIVE count_args(_, _, _)
\* execv_syscall.c:56-95  the first pass over the caller's argv
count_args(args, argc, total_bytes) ==
  IF argc = Len(args)
  THEN [err |-> 0, argc |-> argc, total_bytes |-> total_bytes]
  ELSE LET arglen == args[argc + 1] + 1
       IN IF arglen > ARG_MAX \/ budget_exceeded(total_bytes + arglen, argc)
          THEN [err |-> E2BIG, argc |-> argc, total_bytes |-> total_bytes]
          ELSE count_args(args, argc + 1, total_bytes + arglen)

\* copyout to the new user stack: the bytes must lie in the stack page, the
\* only part of the new address space vm_fault serves up there
copyout_ok(dst, len) ==
  dst >= USERSTACK - PAGE_SIZE /\ dst + len <= USERSTACK

\* byte k of the i-th string (each string is made of its index) and its NUL
StringByte(args, i, k) == IF k = args[i] THEN 0 ELSE i

arg_pointer_past(stackptr) == stackptr + 1
\* execv_syscall.c:239  arg_pointers[i] = stackptr
arg_pointer(stackptr) == stackptr

RECURSIVE push_strings(_, _, _, _, _)
\* execv_syscall.c:225-240  the strings, last one first; i counts from 1
push_strings(args, i, stackptr, ptrs, mem) ==
  IF i = 0
  THEN [err |-> 0, stackptr |-> stackptr, ptrs |-> ptrs, mem |-> mem]
  ELSE LET arg_length == args[i] + 1
           sp == stackptr - arg_length
       IN IF ~copyout_ok(sp, arg_length)
          THEN [err |-> EFAULT, stackptr |-> sp, ptrs |-> ptrs, mem |-> mem]
          ELSE push_strings(args, i - 1, sp,
                 [ptrs EXCEPT ![i] = arg_pointer(sp)],
                 [mem EXCEPT !.b =
                    [a \in StackAddrs |->
                       IF a >= sp /\ a < sp + arg_length
                       THEN StringByte(args, i, a - sp)
                       ELSE mem.b[a]]])

\* execv_syscall.c:243  stackptr &= ~7
align_stack(stackptr) == stackptr - (stackptr % 8)

RECURSIVE push_pointers(_, _, _, _)
\* execv_syscall.c:248-261  the argv array, arg_pointers[argc] first
push_pointers(ptrs, i, stackptr, mem) ==
  IF i = 0
  THEN [err |-> 0, stackptr |-> stackptr, mem |-> mem]
  ELSE LET sp == stackptr - PTR_SIZE
       IN IF ~copyout_ok(sp, PTR_SIZE)
          THEN [err |-> EFAULT, stackptr |-> sp, mem |-> mem]
          ELSE push_pointers(ptrs, i - 1, sp,
                             [mem EXCEPT !.w[sp] = ptrs[i]])

\* execv_syscall.c:213-263  the user stack of the new program
build_stack(args, argc) ==
  LET strings == push_strings(args, argc, USERSTACK,
                              [k \in 1..(argc + 1) |-> 0], NoStack)
      pointers == push_pointers(strings.ptrs, argc + 1,
                                align_stack(strings.stackptr), strings.mem)
  IN IF strings.err # 0
     THEN [err |-> strings.err, stackptr |-> strings.stackptr, mem |-> NoStack]
     ELSE pointers

\* the first copyout of build_stack goes to the stack page: vm_fault gives
\* the page its frame then
first_copyout_ok(args, argc) ==
  IF argc = 0 THEN TRUE ELSE copyout_ok(USERSTACK - (args[argc] + 1), args[argc] + 1)

\* the frames of an address space
FramesOf(as) == {as.pt[a] : a \in Vpages} \ {NoFrame}

as_destroy_leaks(as, cm) == cm
\* addrspace.c:201-229  as_destroy: free_page on every mapped page
as_destroy(as, cm) ==
  [k \in Frames |-> IF k \in FramesOf(as) THEN FreeEntry ELSE cm[k]]
Destroyed == [NoAddrspace EXCEPT !.st = "destroyed"]

\* vm.c:110-141  the page at fa gets the first free frame of cm
MapPage(as, fa, frame) ==
  [as EXCEPT !.pt_l1 = @ \cup {L1Index(fa)}, !.pt = [@ EXCEPT ![fa] = frame]]

TakeFrame_unmarked(cm, frame) == cm
\* coremap.c:102-103  alloc_page marks the frame allocated, as a block of one
TakeFrame(cm, frame) ==
  [cm EXCEPT ![frame] = [free |-> FALSE, block_size |-> 1]]

\* load_elf on the new address space: the header is checked, the text segment
\* defined (as_define_region), as_prepare_load called, the segment read into
\* its page (vm_fault on it), as_complete_load called
TextPage == PAGE_SIZE
load_elf(as, cm, fail) ==
  LET r == [vbase |-> TextPage, npages |-> 1, writeable |-> FALSE]
      as1 == [as EXCEPT !.regions = <<r>> \o @,
                        !.heap_base = RegionEnd(r), !.heap_end = RegionEnd(r),
                        !.loading = TRUE]
      frame == FirstFree(cm)
  IN IF fail = "load_elf_header"
     THEN [err |-> ENOEXEC, as |-> as, cm |-> cm]
     ELSE IF frame = NoFrame
     THEN [err |-> EFAULT,
           as |-> [as1 EXCEPT !.pt_l1 = @ \cup {L1Index(TextPage)}],
           cm |-> cm]
     ELSE IF fail = "load_elf_read"
     THEN [err |-> EIO, as |-> MapPage(as1, TextPage, frame),
           cm |-> TakeFrame(cm, frame)]
     ELSE [err |-> 0,
           as |-> [MapPage(as1, TextPage, frame) EXCEPT !.loading = FALSE],
           cm |-> TakeFrame(cm, frame)]

\* the page of the caller's address space that holds the path and the argv
\* array handed to execv, not touched before the call
ArgvPage == 2 * PAGE_SIZE

\* the struct addrspace the next as_create returns
FreeAsId == Min({i \in AsIds : addrspaces[i].st # "live"})

\* execv_syscall.c:18-275
sys_execv ==
  /\ VmRunning /\ curas # NoAs /\ xret.call = "none"
  /\ \E i \in AsIds : addrspaces[i].st # "live"
  /\ LET fail == xenv.fail
         old_id == curas
         new_id == FreeAsId
         old_as == TheAs
         \* copyinstr of the path faults its page in
         touch_frame == FirstFree(coremap)
         touched == /\ xenv.touch
                    /\ fail \notin {"path_null", "argv_null",
                         "copyinstr_path", "empty_path", "kmalloc_karg"}
                    /\ old_as.pt[ArgvPage] = NoFrame
         old1 == IF touched /\ touch_frame # NoFrame
                 THEN MapPage(old_as, ArgvPage, touch_frame) ELSE old_as
         cm1 == IF touched /\ touch_frame # NoFrame
                THEN TakeFrame(coremap, touch_frame) ELSE coremap
         tlb1 == IF touched /\ touch_frame # NoFrame
                 THEN [tlb EXCEPT ![Min(TlbTargets)] =
                         [valid |-> TRUE, vpn |-> ArgvPage,
                          frame |-> touch_frame, dirty |-> TRUE]]
                 ELSE tlb
         counted == count_args(xargs, 0, 0)
         argc == counted.argc
         loaded == load_elf(NewAs, cm1, fail)
         \* as_define_stack, execv_syscall.c:202
         new1 == [loaded.as EXCEPT !.stack_base = USERSTACK,
                                   !.stack_end = USERSTACK - PAGE_SIZE]
         stack_frame == FirstFree(loaded.cm)
         new2 == MapPage(new1, USERSTACK - PAGE_SIZE, stack_frame)
         cm2 == TakeFrame(loaded.cm, stack_frame)
         built == build_stack(xargs, argc)
         \* a failure before the new address space exists
         Early(err) ==
           /\ xret' = ExecFailed(err)
           /\ addrspaces' = [addrspaces EXCEPT ![old_id] = old1]
           /\ coremap' = cm1
           /\ tlb' = tlb1
           /\ UNCHANGED curas
         \* proc_setas(old_as); as_activate(); as_destroy(as)
         Back(err, as, cm) ==
           /\ xret' = ExecFailed(err)
           /\ addrspaces' = [addrspaces EXCEPT ![old_id] = old1,
                                               ![new_id] = Destroyed]
           /\ coremap' = as_destroy(as, cm)
           /\ tlb' = TlbFlushed
           /\ UNCHANGED curas
     IN
     IF fail \in {"path_null", "argv_null", "copyinstr_path"} THEN Early(EFAULT)
     ELSE IF fail = "empty_path" THEN Early(EINVAL)
     ELSE IF fail = "kmalloc_karg" THEN Early(ENOMEM)
     ELSE IF touched /\ touch_frame = NoFrame THEN Early(EFAULT)
     ELSE IF fail = "copyin_argv" THEN Early(EFAULT)
     ELSE IF counted.err # 0 THEN Early(counted.err)
     ELSE IF fail \in {"kmalloc_kargv", "kmalloc_kargs_block"} THEN Early(ENOMEM)
     ELSE IF fail = "vfs_open" THEN Early(ENOENT)
     ELSE IF fail = "as_create" THEN Early(ENOMEM)
     ELSE IF loaded.err # 0 THEN Back(loaded.err, loaded.as, loaded.cm)
     ELSE IF fail = "kmalloc_arg_pointers" THEN Back(ENOMEM, new1, loaded.cm)
     ELSE IF ~first_copyout_ok(xargs, argc) THEN Back(EFAULT, new1, loaded.cm)
     ELSE IF stack_frame = NoFrame
     THEN Back(EFAULT, [new1 EXCEPT !.pt_l1 =
                          @ \cup {L1Index(USERSTACK - PAGE_SIZE)}], loaded.cm)
     ELSE IF built.err # 0 THEN Back(built.err, new2, cm2)
     ELSE \* as_destroy(old_as); enter_new_process
          /\ xret' = [call |-> "execv", err |-> 0, argc |-> argc,
                      stackptr |-> built.stackptr, argv |-> built.stackptr,
                      mem |-> built.mem]
          /\ addrspaces' = [addrspaces EXCEPT ![old_id] = Destroyed,
                                              ![new_id] = new2]
          /\ coremap' = as_destroy(old1, cm2)
          /\ tlb' = [TlbFlushed EXCEPT ![0] =
                       [valid |-> TRUE, vpn |-> USERSTACK - PAGE_SIZE,
                        frame |-> stack_frame, dirty |-> TRUE]]
          /\ curas' = new_id
  \* the frame copyinstr touched is zero-filled; the text frame holds the
  \* program once load_elf has read it, the stack frame the arguments
  /\ framedata' = [k \in Frames |->
                     IF coremap[k].free /\ ~coremap'[k].free
                     THEN IF k \in FramesOf(addrspaces'[curas']) \ {addrspaces'[curas'].pt[ArgvPage]}
                             /\ xret'.err = 0
                          THEN UserData ELSE ZeroPage
                     ELSE framedata[k]]
  /\ UNCHANGED <<coremap_ready, vmcall, vmprev, vmbefore, aret, abudget,
                 xargs, xenv, mbudget, kvars, svars>>

ExecNext == sys_execv

\* the caller: a process whose address space has a read-only text page and a
\* writable data page, its text page and its stack page in memory
ExecOldAs ==
  [NewAs EXCEPT
     !.regions = <<[vbase |-> 2 * PAGE_SIZE, npages |-> 1, writeable |-> TRUE],
                   [vbase |-> PAGE_SIZE, npages |-> 1, writeable |-> FALSE]>>,
     !.heap_base = 3 * PAGE_SIZE, !.heap_end = 3 * PAGE_SIZE,
     !.stack_base = USERSTACK, !.stack_end = USERSTACK - PAGE_SIZE,
     !.pt_l1 = {L1Index(PAGE_SIZE), L1Index(USERSTACK - PAGE_SIZE)},
     !.pt = [a \in Vpages |-> IF a = PAGE_SIZE THEN 0
                              ELSE IF a = USERSTACK - PAGE_SIZE THEN 1
                              ELSE NoFrame]]

\* frames 0 and 1 are the caller's, the next `others' frames belong to other
\* processes
ExecBoot(others) ==
  /\ KernelIdle /\ SynchBoot(0, 0)
  /\ coremap = [k \in Frames |->
                  IF k < 2 + others THEN [free |-> FALSE, block_size |-> 1]
                  ELSE FreeEntry]
  /\ coremap_ready = TRUE
  /\ vmcall = VmRet("alloc_page", 1, 1 + others)
  /\ vmprev = NoVmCall
  /\ vmbefore = coremap
  /\ curas = 1
  /\ addrspaces = [i \in AsIds |-> IF i = 1 THEN ExecOldAs ELSE NoAddrspace]
  /\ tlb = TlbFlushed
  /\ aret = NoAsCall
  /\ abudget = [faults |-> 0, sbrks |-> 0]
  /\ xret = NoExec
  /\ MemIdle

\* the string lengths tried: every residue of the alignment, and the lengths
\* around the budget, ARG_MAX less up to three pointers and a NUL
ArgLens ==
  (0..8) \cup {ARG_MAX - (k * PTR_SIZE + d) : k \in 0..2, d \in 0..1}
         \cup {ARG_MAX - (3 * PTR_SIZE + d) : d \in 1..2}

\* every argv of up to MaxArgc strings of these lengths
ArgVectors ==
  UNION {[1..n -> ArgLens] : n \in 0..MaxArgc}

\* the argument handling: every vector, every callee succeeding
ArgInit ==
  /\ ExecBoot(0)
  /\ xargs \in ArgVectors
  /\ xenv = [fail |-> "none", touch |-> FALSE]
ArgSpec == ArgInit /\ [][ExecNext]_vars

\* the failures: a few vectors, every failing callee, memory short or not
ExecArgLens == {0, 2, PAGE_SIZE}
ExecInit ==
  /\ \E others \in 0..(TotalPages - 2) : ExecBoot(others)
  /\ xargs \in UNION {[1..n -> ExecArgLens] : n \in 0..2}
  /\ xenv \in [fail : ExecFailPoints, touch : BOOLEAN]
ExecSpec == ExecInit /\ [][ExecNext]_vars

\* ------------------------------------------------------- fork and memory
RECURSIVE copy_l2(_, _, _, _, _)
\* addrspace.c:166-188  the entries of one level-2 table, lowest page first:
\* a fresh frame for every page that has one, the contents copied
copy_l2(old, pages, new_l2, cm, fd) ==
  IF pages = {}
  THEN [err |-> 0, l2 |-> new_l2, cm |-> cm, fd |-> fd]
  ELSE LET a == Min(pages)
           old_paddr == old.pt[a]
           new_paddr == FirstFree(cm)
       IN IF old_paddr = NoFrame
          THEN copy_l2(old, pages \ {a}, new_l2, cm, fd)
          ELSE IF new_paddr = NoFrame
          THEN [err |-> ENOMEM, l2 |-> new_l2, cm |-> cm, fd |-> fd]
          ELSE copy_l2(old, pages \ {a},
                       [new_l2 EXCEPT ![a] = new_paddr],
                       TakeFrame(cm, new_paddr),
                       [fd EXCEPT ![new_paddr] = fd[old_paddr]])

RECURSIVE copy_l1(_, _, _, _, _, _)
\* addrspace.c:152-191  the level-1 slots in order; the kmalloc of the
\* level-2 table of the slots in failing returns NULL.  A level-2 table is
\* put into newas only when all its entries are copied (l.190)
copy_l1(old, slots, newas, cm, fd, failing) ==
  IF slots = {}
  THEN [err |-> 0, as |-> newas, cm |-> cm, fd |-> fd]
  ELSE LET i == Min(slots)
           l2 == copy_l2(old, {a \in Vpages : L1Index(a) = i}, newas.pt, cm, fd)
       IN IF i \notin old.pt_l1
          THEN copy_l1(old, slots \ {i}, newas, cm, fd, failing)
          ELSE IF i \in failing
          THEN [err |-> ENOMEM, as |-> newas, cm |-> cm, fd |-> fd]
          ELSE IF l2.err # 0
          THEN \* kfree(new_l2); as_destroy(newas)
               [err |-> l2.err, as |-> newas, cm |-> l2.cm, fd |-> l2.fd]
          ELSE copy_l1(old, slots \ {i},
                       [newas EXCEPT !.pt_l1 = @ \cup {i}, !.pt = l2.l2],
                       l2.cm, l2.fd, failing)

\* what may fail in sys_fork after proc_create, and "none"
ForkCauses ==
  {"none", "as_create", "region", "l2_table", "copy_file_table", "child_tf",
   "thread_fork"}

as_copy_shared(old, cm, fd, cause, failing) ==
  [err |-> 0, as |-> old, cm |-> cm, fd |-> fd]
\* addrspace.c:100-195
as_copy(old, cm, fd, cause, failing) ==
  LET newas == [NewAs EXCEPT !.regions = old.regions,
                             !.heap_base = old.heap_base,
                             !.heap_end = old.heap_end,
                             !.stack_base = old.stack_base,
                             !.stack_end = old.stack_end,
                             !.loading = old.loading]
      tables == copy_l1(old, L1Indices, newas, cm, fd, failing)
  IN IF cause = "as_create"
     THEN [err |-> ENOMEM, as |-> NoAddrspace, cm |-> cm, fd |-> fd]
     ELSE IF cause = "region" /\ old.regions # <<>>
     THEN [err |-> ENOMEM, as |-> Destroyed, cm |-> cm, fd |-> fd]
     ELSE IF tables.err # 0
     THEN [err |-> tables.err, as |-> Destroyed,
           cm |-> as_destroy(tables.as, tables.cm), fd |-> tables.fd]
     ELSE tables

\* fork_syscall.c:25-88  what sys_fork does to memory: as_copy, and on a later
\* failure as_destroy(child_as) followed by proc_destroy(child), which calls
\* as_destroy on child->p_addrspace, the same address space, once more: it
\* reads freed memory, and the kernel gets through or stops
sys_fork_vm ==
  /\ HasAs /\ coremap_ready /\ mbudget.forks > 0
  /\ \E i \in AsIds : addrspaces[i].st # "live"
  /\ mbudget' = [mbudget EXCEPT !.forks = @ - 1]
  /\ \E cause \in ForkCauses :
     \E failing \in IF cause = "l2_table"
                    THEN {{i} : i \in TheAs.pt_l1} ELSE {{}} :
       LET child == FreeAsId
           copied == as_copy(TheAs, coremap, framedata, cause, failing)
           Result(err) == aret' = [AsRet("fork", err) EXCEPT !.val = child]
       IN IF copied.err # 0
          THEN \* fork_syscall.c:32-35  as_copy's error is returned
               /\ aret' = [AsRet("as_copy", copied.err) EXCEPT !.val = child]
               /\ addrspaces' = [addrspaces EXCEPT ![child] =
                                   IF cause = "as_create" THEN @ ELSE copied.as]
               /\ coremap' = copied.cm
               /\ framedata' = copied.fd
               /\ UNCHANGED vmcall
          ELSE IF cause = "none"
          THEN /\ Result(0)
               /\ addrspaces' = [addrspaces EXCEPT ![child] = copied.as]
               /\ coremap' = copied.cm
               /\ framedata' = copied.fd
               /\ UNCHANGED vmcall
          ELSE /\ Result(ENOMEM)
               /\ addrspaces' = [addrspaces EXCEPT ![child] = Destroyed]
               /\ coremap' = as_destroy(copied.as, copied.cm)
               /\ framedata' = copied.fd
               /\ \/ UNCHANGED vmcall
                  \/ vmcall' = [vmcall EXCEPT !.halted = TRUE]
  /\ UNCHANGED <<coremap_ready, vmprev, vmbefore, curas, tlb, abudget,
                 kvars, svars, xvars>>

\* waitpid_syscall.c:51, proc.c:192-236  the parent reaps a child that has
\* exited: proc_destroy calls as_destroy on the child's address space
proc_destroy_vm ==
  /\ HasAs /\ mbudget.reaps > 0
  /\ mbudget' = [mbudget EXCEPT !.reaps = @ - 1]
  /\ \E i \in AsIds \ {curas} :
       /\ addrspaces[i].st = "live"
       /\ addrspaces' = [addrspaces EXCEPT ![i] = Destroyed]
       /\ coremap' = as_destroy(addrspaces[i], coremap)
       /\ aret' = [AsRet("proc_destroy", 0) EXCEPT !.val = i]
  /\ UNCHANGED <<coremap_ready, vmcall, vmprev, vmbefore, curas, tlb, abudget,
                 framedata, kvars, svars, xvars>>

\* addrspace.c:234-258  another process gets the CPU: as_activate
as_activate ==
  /\ HasAs /\ mbudget.switches > 0
  /\ mbudget' = [mbudget EXCEPT !.switches = @ - 1]
  /\ \E i \in AsIds \ {curas} :
       /\ addrspaces[i].st = "live"
       /\ curas' = i
       /\ aret' = [AsRet("as_activate", 0) EXCEPT !.val = i]
  /\ tlb' = TlbFlushed
  /\ UNCHANGED <<addrspaces, abudget, framedata, kvars, svars, mvars, xvars>>

\* vm.c:146  the running program stores to a page it has a TLB entry with
\* TLBLO_DIRTY for
user_store ==
  /\ HasAs /\ mbudget.stores > 0
  /\ mbudget' = [mbudget EXCEPT !.stores = @ - 1]
  /\ \E i \in TlbSlots :
       /\ tlb[i].valid /\ tlb[i].dirty
       /\ framedata' = [framedata EXCEPT ![tlb[i].frame] = UserData]
       /\ aret' = [AsRet("store", 0) EXCEPT !.addr = tlb[i].vpn,
                                            !.val = tlb[i].frame]
  /\ UNCHANGED <<addrspaces, curas, tlb, abudget, kvars, svars, mvars, xvars>>

MemNext ==
  \/ vm_fault
  \/ sys_sbrk
  \/ user_store
  \/ sys_fork_vm
  \/ sys_execv
  \/ proc_destroy_vm
  \/ as_activate

\* the first process as runprogram starts it: a read-only text page and a
\* writable data page in the same level-2 table, the text page in memory
MemOldAs ==
  [NewAs EXCEPT
     !.regions = <<[vbase |-> 3 * PAGE_SIZE, npages |-> 1, writeable |-> TRUE],
                   [vbase |-> 2 * PAGE_SIZE, npages |-> 1, writeable |-> FALSE]>>,
     !.heap_base = 4 * PAGE_SIZE, !.heap_end = 4 * PAGE_SIZE,
     !.stack_base = USERSTACK, !.stack_end = USERSTACK - PAGE_SIZE,
     !.pt_l1 = {L1Index(2 * PAGE_SIZE)},
     !.pt = [a \in Vpages |-> IF a = 2 * PAGE_SIZE THEN 0 ELSE NoFrame]]

MemBoot(faults, sbrks, stores, forks, reaps) ==
  /\ KernelIdle /\ SynchBoot(0, 0)
  /\ \E others \in 0..2 :
       /\ coremap = [k \in Frames |->
                       IF k < 1 + others THEN [free |-> FALSE, block_size |-> 1]
                       ELSE FreeEntry]
       /\ vmcall = VmRet("alloc_page", 1, others)
  /\ coremap_ready = TRUE
  /\ vmprev = NoVmCall
  /\ vmbefore = coremap
  /\ curas = 1
  /\ addrspaces = [i \in AsIds |-> IF i = 1 THEN MemOldAs ELSE NoAddrspace]
  /\ tlb = TlbFlushed
  /\ aret = NoAsCall
  /\ abudget = [faults |-> faults, sbrks |-> sbrks]
  /\ xargs = <<>>
  /\ xenv \in [fail : {"none", "load_elf_read"}, touch : {FALSE}]
  /\ xret = NoExec
  /\ framedata = [k \in Frames |-> UserData]
  /\ mbudget = [stores |-> stores, forks |-> forks, reaps |-> reaps,
                switches |-> 1]

\* every call that allocates or frees frames, a few of each
MemInit == MemBoot(1, 1, 1, MaxMemForks, 1)
MemSpec == MemInit /\ [][MemNext]_vars

\* fork among page faults and stores
ForkNext ==
  \/ vm_fault
  \/ user_store
  \/ sys_fork_vm
  \/ as_activate
ForkInit == MemBoot(MaxMemFaults, 0, MaxStores, 1, 0) /\ xenv.fail = "none"
ForkSpec == ForkInit /\ [][ForkNext]_vars

\* ----------------------------------------------------------------- claims
LiveRecs == {r \in Recs : proc[r].st = "live"}
WaitOk == ev.call = "waitpid" /\ ev.err = 0

\* C1: at every point of a run no two live process records hold the same
\* PID, and every live record p is the entry of the PID table at p's own PID.
C1_PidUnique ==
  Running =>
    /\ \A a, b \in LiveRecs : a # b => proc[a].p_pid # proc[b].p_pid
    /\ \A r \in LiveRecs : pid_table[proc[r].p_pid] = r

\* C2: while every PID of [PID_MIN, PID_MAX) is occupied, proc_create hands
\* out no process record, and a fork that returns success has created a child
\* that holds a slot of the PID table.
C2_FullTableCreatesNothing ==
  [][/\ (Running /\ FreePids(pid_table) = {}) =>
           \A c \in Recs : proc[c].st = "unused" => proc'[c].st = "unused"
     /\ (ev'.call = "fork" /\ ev'.err = 0) =>
           pid_table'[ev'.val] = ev'.target]_vars

\* C3: a process record keeps its PID slot from proc_create until its own
\* proc_destroy, an exited child not yet reaped included; a slot is cleared
\* only by the destruction of the record in it; and when waitpid returns
\* success the slot of the returned PID is free, so that a second waitpid on
\* it finds no process and proc_create may hand the PID out again.
C3_SlotLifetime ==
  /\ [](Running => \A r \in LiveRecs : pid_table[proc[r].p_pid] = r)
  /\ [](WaitOk => /\ pid_table[ev.val] = NoProc
                  /\ WaitLookup(pid_table, ev.val, 0) = ESRCH
                  /\ proc_allocpid(pid_table) <= ev.val)
  /\ [][\A i \in Pids :
          (pid_table[i] # NoProc /\ pid_table'[i] # pid_table[i]) =>
             (proc'[pid_table[i]].st = "freed" /\ pid_table'[i] = NoProc)]_vars

\* the thread is in waitpid, past the checks, on a child that has called _exit
Waiting(t) == pc[t] \in {"wp_lock", "wp_test", "wp_sleep", "wp_reap"}
HasCalledExit(c) == pc[c] \in {"exit_mark", "exit_thread", "zombie"}

\* C4: under fair scheduling a parent's waitpid on a child that calls _exit
\* eventually returns, whenever the child exits (before the parent waits,
\* while it tests the flag, or after it has gone to sleep), and waitpid never
\* returns success before the child has set its exited flag.
C4_WaitpidReturns ==
  /\ \A t \in Recs :
        (Waiting(t) /\ HasCalledExit(loc[t].child)) ~> (pc[t] = "user")
  /\ [](WaitOk => proc[ev.target].p_exited)

\* C5: when waitpid returns success for a child that called _exit(c), the
\* value returned is the child's PID and a status word written to the caller
\* is _MKWAIT_EXIT(c & 0xff), from which WEXITSTATUS recovers c mod 256.
C5_StatusAndPid ==
  WaitOk =>
    LET c == ev.target IN
    /\ ev.val = proc[c].p_pid
    /\ ev.val = ev.pid
    /\ ev.status # NoStatus =>
         /\ ev.status = MKWAIT_EXIT(proc[c].exit_arg % 256)
         /\ WEXITSTATUS(ev.status) = proc[c].exit_arg % 256

\* a child that called _exit(263) was reaped and its status 7 written
C5_Witness ==
  /\ WaitOk /\ ev.status # NoStatus
  /\ proc[ev.target].exit_arg = 263
  /\ WEXITSTATUS(ev.status) = 7

C6Step(t) ==
  LET entry == pc[t] = "user" /\ ev'.t = t /\ ev'.call = "waitpid"
      check == pc[t] = "wp_parent" /\ pc'[t] # "wp_parent"
                 /\ ~Stale(loc[t].child)
      failed == ev'.t = t /\ ev'.call = "waitpid"
                  /\ ev'.err \in {EINVAL, ESRCH, ECHILD} IN
  \* a call that gets past the entry checks has options 0 and names a process
  /\ (pc[t] = "user" /\ pc'[t] = "wp_parent") =>
        /\ loc'[t].options = 0
        /\ proc_get(pid_table, loc'[t].pid) # NoProc
  \* a call that returns at entry has failed one of them, options first
  /\ entry => /\ ev'.options # 0 => ev'.err = EINVAL
              /\ ev'.options = 0 =>
                   (ev'.err = ESRCH /\ proc_get(pid_table, ev'.pid) = NoProc)
  \* the parent check returns ECHILD exactly when the target's parent is not
  \* the caller
  /\ check => IF proc[loc[t].child].p_parent # proc[t].p_pid
              THEN ev'.t = t /\ ev'.call = "waitpid" /\ ev'.err = ECHILD
              ELSE pc'[t] = "wp_lock"
  \* the three errors come without blocking and change nothing
  /\ failed => /\ pc[t] \in {"user", "wp_parent"}
               /\ UNCHANGED <<pid_table, proc, file_table, obj>>

\* C6: waitpid returns EINVAL when options is not 0, before anything else;
\* ESRCH when the pid names no process, pids outside [PID_MIN, PID_MAX)
\* included; ECHILD when the target's p_parent is not the caller's PID; and in
\* each of these cases it does not block, destroys nothing and leaves the PID
\* table and the target's exit state as they were.
C6_WaitpidErrors == [][\A t \in Recs : C6Step(t)]_vars

\* waitpid returned ECHILD to a process that is not the parent of its target,
\* which is still there
C6_Witness ==
  /\ ev.call = "waitpid" /\ ev.err = ECHILD
  /\ proc[ev.target].st = "live"
  /\ proc[ev.target].p_parent # proc[ev.t].p_pid
  /\ pid_table[ev.pid] = ev.target

\* no proc_create ran on a full PID table
AllRegistered == \A r \in Recs : proc[r].st # "unused" => proc[r].registered

\* C7: waitpid on a process returns success only to the process whose fork
\* created it (here: in runs where every process got a PID of its own).
C7_OnlyForkerReaps ==
  (WaitOk /\ AllRegistered) => ev.t = proc[ev.target].forker

\* no thread is inside open_file_decref or open_file_destroy, and so inside
\* no file system call
Quiet ==
  \A t \in Recs :
    pc[t] \notin {"decref_dec", "decref_test", "destroy_close", "destroy_free"}

\* the (process, fd) slots that point to object f
SlotsOf(f) == {s \in Recs \X Fds : file_table[s[1]][s[2]] = f}

\* every record freed so far was a child reaped by waitpid
NoFailedFork == \A r \in Recs : proc[r].st = "freed" => proc[r].p_exited

\* C8: whenever no file system call is in progress, the reference_count of
\* every live open-file object is the number of (process, fd) slots that point
\* to it (here: in runs in which no fork failed).
C8_RefcountIsSlots ==
  (Running /\ Quiet /\ NoFailedFork) =>
    \A f \in Objs :
      obj[f].st = "live" => obj[f].reference_count = Cardinality(SlotsOf(f))

\* C9: under every interleaving vfs_close is called at most once on an
\* open-file object and the object is freed at most once, and neither while a
\* file-table slot still points to it.
C9_ClosedOnce ==
  Running =>
    \A f \in Objs :
      /\ obj[f].closes <= 1
      /\ obj[f].frees <= 1
      /\ obj[f].closes > 0 => SlotsOf(f) = {}

\* thread t makes the transfer or the seek of a read, write or lseek that
\* will return success
IoStep(t) ==
  /\ pc[t] = "user" /\ pc'[t] = "decref_dec"
  /\ loc'[t].ret.call \in {"read", "write", "lseek"}
  /\ loc'[t].ret.err = 0

BadFd(fd) == fd \notin Fds

\* C11: read, write, lseek, close and dup2 return EBADF for every descriptor
\* argument outside [0, OPEN_MAX), and none of them gets past its range check
\* to index the file table with such a descriptor.
C11_BadFdIsEBADF ==
  Running =>
    /\ \A t \in Recs : pc[t] # "write_index"
    /\ (ev.call \in {"read", "write", "lseek", "close"} /\ BadFd(ev.fd)) =>
          ev.err = EBADF
    /\ (ev.call = "dup2" /\ (BadFd(ev.fd) \/ BadFd(ev.oldfd))) =>
          ev.err = EBADF

\* the step is the return of an open call by thread t
OpenReturns(t) == ev'.t = t /\ ev'.call = "open"

\* the step changes object f alone, and no slot but slot fd of thread t
OnlyChanges(t, fd, f) ==
  /\ \A g \in Objs \ {f} : obj'[g] = obj[g]
  /\ \A r \in Recs, d \in Fds :
        (r # t \/ d # fd) => file_table'[r][d] = file_table[r][d]

C12Step(t) ==
  /\ (OpenReturns(t) /\ ev'.err = 0) =>
        LET fd == ev'.val
            f == file_table'[t][fd] IN
        /\ fd \in FreeFds(t)
        /\ \A d \in FreeFds(t) : fd <= d
        /\ f # NoObj /\ obj[f].st = "unused" /\ obj'[f].st = "live"
        /\ obj'[f].reference_count = 1 /\ obj'[f].offset = 0
        /\ obj'[f].closes = 0
        /\ OnlyChanges(t, fd, f)
  /\ (OpenReturns(t) /\ ev'.err = EMFILE) =>
        /\ FreeFds(t) = {}
        /\ file_table' = file_table
        /\ \E f \in Objs :
              /\ obj[f].st = "unused" /\ obj'[f].st = "freed"
              /\ obj'[f].closes = 1 /\ obj'[f].frees = 1
              /\ \A g \in Objs \ {f} : obj'[g] = obj[g]
  /\ (OpenReturns(t) /\ FreeFds(t) = {}) => ev'.err # 0

\* C12: a successful open puts a new object with reference count 1 and
\* offset 0 in the lowest free slot of the caller's table, returns that index
\* and changes no other slot; with no free slot open returns EMFILE, changes
\* no slot, and the vnode it opened is closed exactly once.
C12_OpenLowestSlot == [][\A t \in Recs : C12Step(t)]_vars

\* open returned EMFILE to a process whose table is full (its last slot
\* filled by dup2), and the object of the failed open is closed and freed
C12_Witness ==
  /\ ev.call = "open" /\ ev.err = EMFILE
  /\ FreeFds(ev.t) = {}
  /\ \E f \in Objs : /\ obj[f].st = "freed" /\ obj[f].file_vn = "file"
                      /\ obj[f].closes = 1 /\ obj[f].frees = 1

\* thread t makes the table update of a dup2(old, new) that will return
\* success, old and new being different descriptors of different objects
Dup2Step(t) ==
  /\ pc[t] = "user" /\ pc'[t] \in {"user", "decref_dec"}
  /\ pc'[t] = "user" => ev'.t = t
  /\ LET r == IF pc'[t] = "user" THEN ev' ELSE loc'[t].ret IN
     /\ r.call = "dup2" /\ r.err = 0 /\ r.oldfd # r.fd
     /\ file_table[t][r.oldfd] # file_table[t][r.fd]

\* what the table update of dup2 does
Dup2Effect(t) ==
  LET r == IF pc'[t] = "user" THEN ev' ELSE loc'[t].ret
      old_fh == file_table[t][r.oldfd]
      new_fh == file_table[t][r.fd] IN
  /\ old_fh # NoObj
  /\ file_table'[t][r.fd] = old_fh /\ file_table'[t][r.oldfd] = old_fh
  /\ r.val = r.fd
  /\ obj' = [obj EXCEPT ![old_fh].reference_count = @ + 1]
  /\ \A s \in Recs, d \in Fds :
        (s # t \/ d # r.fd) => file_table'[s][d] = file_table[s][d]
  \* the object new named before is handed to open_file_decref, once
  /\ IF new_fh = NoObj THEN pc'[t] = "user" /\ ev'.t = t
     ELSE pc'[t] = "decref_dec" /\ loc'[t].o = new_fh

\* open_file_decref takes exactly one reference from its object
DecrefStep(t) == pc[t] = "decref_dec" /\ pc'[t] = "decref_test"
DecrefEffect(t) ==
  obj' = [obj EXCEPT ![loc[t].o].reference_count = @ - 1]

LseekStep(t) ==
  /\ pc[t] = "user" /\ pc'[t] = "decref_dec"
  /\ loc'[t].ret.call = "lseek"

\* the offset the call asks for, in off_t arithmetic
Wanted(f, r) ==
  IF r.whence = SEEK_SET THEN r.pos
  ELSE IF r.whence = SEEK_CUR THEN OffT(obj[f].offset + r.pos)
  ELSE OffT(r.size + r.pos)

LseekEffect(t) ==
  LET r == loc'[t].ret
      f == file_table[t][r.fd] IN
  /\ loc'[t].o = f
  /\ obj'[f].reference_count = obj[f].reference_count + 1
  /\ \A g \in Objs \ {f} : obj'[g] = obj[g]
  /\ file_table' = file_table
  /\ r.err # 0 => obj'[f].offset = obj[f].offset
  /\ r.err = 0 => (obj'[f].offset = r.val /\ r.val >= 0)
  /\ IF obj[f].file_vn = "con" THEN r.err = ESPIPE
     ELSE IF r.whence \notin {SEEK_SET, SEEK_CUR, SEEK_END} THEN r.err = EINVAL
     ELSE IF r.whence = SEEK_END /\ r.err = EIO THEN TRUE
     ELSE IF Wanted(f, r) < 0 THEN r.err = EINVAL
     ELSE r.err = 0 /\ r.val = Wanted(f, r)

\* C14: on a seekable descriptor lseek sets the object's offset to pos, to
\* the current offset plus pos or to the file size plus pos, and returns it;
\* it returns EINVAL for a negative result or an unknown whence and ESPIPE on
\* a vnode that cannot seek; and a failed lseek leaves the offset as it was
\* and, once it has returned, the reference count as it was (the number of
\* slots naming the object).
C14_LseekOffsets ==
  /\ [][\A t \in Recs : /\ (LseekStep(t) => LseekEffect(t))
                         /\ (DecrefStep(t) => DecrefEffect(t))]_vars
  /\ []((ev.call = "lseek" /\ ev.err \notin {0, EBADF}) =>
          LET f == file_table[ev.t][ev.fd] IN
          /\ obj[f].st = "live"
          /\ obj[f].reference_count = Cardinality(SlotsOf(f)))

\* lseek(fd, -1, SEEK_SET) has returned EINVAL on a file whose offset an
\* earlier call had moved to 1, and the offset is still 1
C14_Witness ==
  /\ ev.call = "lseek" /\ ev.err = EINVAL
  /\ ev.whence = SEEK_SET /\ ev.pos = -1
  /\ obj[file_table[ev.t][ev.fd]].file_vn = "file"
  /\ obj[file_table[ev.t][ev.fd]].offset = 1
  /\ obj[file_table[ev.t][ev.fd]].reference_count = 1

\* C15: under every interleaving of threads that call lock_acquire and later
\* lock_release, at most one thread is inside its critical section (between
\* the return of its lock_acquire and its call of lock_release), and that
\* thread is the lock's owner.
C15_MutualExclusion ==
  /\ Cardinality(holds) <= 1
  /\ \A t \in holds : lk_owner = t

\* one thread is in its critical section while another, which found the
\* lock's semaphore at zero, sleeps in lock_acquire
C15_Witness ==
  \E t \in holds, u \in Threads :
    /\ u # t /\ u \in sem_wchan["lk_sem"]
    /\ th[u].op = "lock_acquire" /\ th[u].pc = "P_sleep"

\* the threads in P on semaphore s that have been woken and not run yet, or
\* are at the test of the count
Woken(s) ==
  {t \in Threads : /\ SemOf(t) = s
                   /\ \/ At(t, "P_sleep") /\ t \notin sem_wchan[s]
                      \/ At(t, "P_test")}

\* the step with which thread t leaves P's loop
PExit(t) == At(t, "P_test") /\ th'[t].pc \in {"idle", "acq_owner"}

\* C16: a semaphore's count is never negative; P returns only by decrementing
\* a count that was positive, so the completed P calls number at most the
\* initial count plus the V calls; and no wake-up is lost: a thread that found
\* the count zero goes to sleep before any V can run, and while threads sleep
\* on the semaphore every unit of the count has a woken thread to take it.
C16_SemaphoreCount ==
  /\ [](\A s \in Sems : sem_count[s] >= 0)
  /\ [](/\ hist.nP <= hist.initial + hist.nV
        /\ sem_count["sem"] = hist.initial + hist.nV - hist.nP)
  /\ [][\A t \in Threads :
          PExit(t) => /\ sem_count[SemOf(t)] > 0
                      /\ sem_count'[SemOf(t)] = sem_count[SemOf(t)] - 1]_vars
  /\ [](\A t \in Threads :
          At(t, "P_enq") => /\ sem_count[SemOf(t)] = 0
                            /\ sem_lock[SemOf(t)] = t)
  /\ [](\A s \in Sems :
          sem_wchan[s] # {} => sem_count[s] <= Cardinality(Woken(s)))

\* V has just returned: it found two threads asleep in P, woke one of them
\* and left the count at 1 for it
C16_Witness ==
  /\ returned.call = "V"
  /\ sem_count["sem"] = 1
  /\ \E t \in Threads, u \in Threads :
       /\ th[t].op = "P" /\ At(t, "P_sleep") /\ t \notin sem_wchan["sem"]
       /\ th[u].op = "P" /\ At(u, "P_sleep") /\ u \in sem_wchan["sem"]

\* thread u has taken the lock's semaphore and not given it back
HasLock(u) ==
  \/ At(u, "acq_owner")
  \/ u \in holds
  \/ At(u, "rel_check") /\ lk_owner = u
  \/ th[u].pc \in {"V_spin", "V_inc"} /\ SemOf(u) = "lk_sem"

\* thread t is in cv_wait, on the CV's wait channel or woken and not yet in
\* lock_acquire
InCvSleep(t) == th[t].op = "cv_wait" /\ th[t].pc \in {"cvw_sleep", "cvw_unspin"}

\* C17: cv_wait, called by the holder of the lock, has released the lock for
\* the whole time the caller is asleep: the sleeper neither owns it nor has
\* its semaphore, which is free for others unless another thread has taken
\* it; and cv_wait returns only with the caller as the owner of the lock
\* again.
C17_WaitReleasesAndReacquires ==
  /\ \A t \in Threads :
       InCvSleep(t) => (lk_owner # t /\ t \notin holds /\ ~HasLock(t))
  /\ sem_count["lk_sem"] + Cardinality({u \in Threads : HasLock(u)}) = 1
  /\ returned.call = "cv_wait" =>
       (lk_owner = returned.t /\ returned.t \in holds)

\* cv_wait has returned to a thread, which owns the lock again, after another
\* thread took the lock while it slept and signalled
C17_Witness ==
  /\ returned.call = "cv_wait"
  /\ lk_owner = returned.t /\ returned.t \in holds
  /\ sem_count["lk_sem"] = 0

\* thread w has called cv_wait and is not yet on the CV's wait channel
BeforeSleep(w) ==
  /\ th[w].op = "cv_wait"
  /\ th[w].pc \in {"cvw_spin", "rel_check", "V_spin", "V_inc", "cvw_enq"}

\* thread s holds the CV's spinlock and is about to issue its wake-up
Issuing(s) == At(s, "sig_wake")

\* thread w has been woken from the CV's wait channel
WokenFromCv(w) == At(w, "cvw_sleep") /\ w \notin cv_wchan

\* C18: no wake-up is lost between the release of the lock and the sleep:
\* when a thread that holds the lock issues the wake-up of cv_signal or
\* cv_broadcast, every thread that called cv_wait before it is on the CV's
\* wait channel (none is still between its call and its sleep); a signal
\* that finds a single waiter wakes it; and under fair scheduling a woken
\* waiter returns from cv_wait once the lock is released.
C18_NoLostWakeup ==
  /\ [](\A s \in Threads, w \in Threads : Issuing(s) => ~BeforeSleep(w))
  /\ [][\A s \in Threads, w \in Threads :
          (Issuing(s) /\ cv_wchan = {w} /\ ~Issuing(s)') => cv_wchan' = {}]_vars
  /\ \A w \in Threads : WokenFromCv(w) ~> At(w, "idle")

\* a thread that holds the lock is about to issue the wake-up of cv_signal
\* and the one thread that called cv_wait is on the wait channel
C18_Witness ==
  \E s \in Threads, w \in Threads :
    /\ Issuing(s) /\ th[s].op = "cv_signal" /\ lk_owner = s
    /\ cv_wchan = {w} /\ th[w].op = "cv_wait"

\* thread s issues the wake-up of the primitive named call
WakeStep(s, call) == Issuing(s) /\ th[s].op = call /\ returned'.t = s

\* C19: cv_signal wakes one waiter if there is any and never more than one,
\* cv_broadcast wakes every thread on the CV's wait channel; a wake-up issued
\* while nobody waits leaves nothing behind; every cv_wait goes on the wait
\* channel, whatever was signalled before, and a waiter leaves the channel
\* and goes on only through a wake-up issued after it went to sleep.
C19_SignalAndBroadcast ==
  [][\A s \in Threads :
       /\ WakeStep(s, "cv_signal") =>
            /\ cv_wchan' \subseteq cv_wchan
            /\ Cardinality(cv_wchan \ cv_wchan') =
                 IF cv_wchan = {} THEN 0 ELSE 1
       /\ WakeStep(s, "cv_broadcast") => cv_wchan' = {}
       /\ (Issuing(s) /\ returned'.t = s /\ cv_wchan = {}) =>
            UNCHANGED <<sem_count, sem_wchan, lk_owner, cv_wchan, holds>>
       /\ (At(s, "cvw_enq") /\ ~At(s, "cvw_enq")') =>
            (At(s, "cvw_sleep")' /\ s \in cv_wchan')
       /\ (At(s, "cvw_sleep") /\ ~At(s, "cvw_sleep")') => s \notin cv_wchan
       /\ (s \in cv_wchan /\ s \notin cv_wchan') =>
            \E u \in Threads \ {s} : Issuing(u) /\ returned'.t = u]_vars

\* cv_signal has returned with two threads in cv_wait: one was woken, the
\* other is still on the wait channel
C19_Witness ==
  /\ returned.call = "cv_signal"
  /\ \E t \in Threads, u \in Threads :
       /\ t # u
       /\ th[t].op = "cv_wait" /\ At(t, "cvw_sleep") /\ t \notin cv_wchan
       /\ th[u].op = "cv_wait" /\ At(u, "cvw_sleep") /\ u \in cv_wchan

RECURSIVE SumBlockSizes(_, _)
\* the sum of block_size over the coremap entries from frame i on
SumBlockSizes(cm, i) ==
  IF i >= TotalPages THEN 0 ELSE cm[i].block_size + SumBlockSizes(cm, i + 1)

\* the heads of the blocks frame i lies in
HeadsOf(cm, i) ==
  {h \in Frames : /\ ~cm[h].free /\ cm[h].block_size > 0
                  /\ h <= i /\ i < h + cm[h].block_size}

\* C20: after vm_bootstrap and after every completed call of alloc_page,
\* alloc_kpages (any page count), free_page and free_kpages, the block_size
\* fields add up to the number of frames that are not free, and every frame
\* that is not free lies in exactly one block, whose head holds its length.
C20_CoremapAccounting ==
  (coremap_ready /\ VmRunning) =>
    /\ SumBlockSizes(coremap, 0) =
         Cardinality({i \in Frames : ~coremap[i].free})
    /\ \A i \in Frames :
         ~coremap[i].free => Cardinality(HeadsOf(coremap, i)) = 1

\* the frames that start a run of n consecutive free frames inside the coremap
RunStarts(cm, n) ==
  {i \in Frames : /\ i + n <= TotalPages
                  /\ \A k \in i..(i + n - 1) : cm[k].free}

\* the entry alloc_kpages(n) is to leave in frame k of the run that starts at i
RunEntry(i, k, n) ==
  [free |-> FALSE, block_size |-> IF k = i THEN n ELSE 0]

AllocKpagesStep ==
  coremap_ready /\ vmcall'.call = "alloc_kpages" /\ vmcall' # vmcall

\* C21: after bootstrap alloc_kpages(n) returns the lowest-indexed run of n
\* consecutive frames that were free before the call and marks exactly those n
\* frames allocated (the head with block_size n, the others with 0), changing
\* no other entry; without such a run it returns 0 and changes nothing.
C21_FirstFit ==
  [][AllocKpagesStep =>
       LET n == vmcall'.arg
           i == vmcall'.val
       IN IF RunStarts(coremap, n) = {}
          THEN i = NoFrame /\ coremap' = coremap
          ELSE /\ i = Min(RunStarts(coremap, n))
               /\ \A k \in Frames :
                    coremap'[k] = IF k >= i /\ k < i + n
                                  THEN RunEntry(i, k, n)
                                  ELSE coremap[k]]_vars

\* free_kpages is applied to the address the call before it, alloc_kpages(n),
\* returned
FreesLastBlock ==
  /\ coremap_ready
  /\ vmcall.call = "alloc_kpages" /\ vmcall.val # NoFrame
  /\ vmcall'.call = "free_kpages" /\ vmcall'.arg = vmcall.val
  /\ vmprev' = vmcall

\* alloc_kpages(n) is repeated right after that free_kpages
RepeatsAlloc ==
  /\ coremap_ready
  /\ vmprev.call = "alloc_kpages" /\ vmprev.val # NoFrame
  /\ vmcall.call = "free_kpages" /\ vmcall.arg = vmprev.val
  /\ vmcall'.call = "alloc_kpages" /\ vmcall'.arg = vmprev.arg
  /\ vmprev' = vmcall

\* C22: free_kpages applied to the address alloc_kpages(n) returned frees the
\* n frames of that block and no other frame, which puts the coremap back to
\* what it was before the allocation; alloc_kpages(n) repeated right after it
\* returns the same address.
C22_FreeUndoesAlloc ==
  [][/\ FreesLastBlock =>
          /\ ~vmcall'.halted
          /\ \A k \in Frames :
               coremap'[k] = IF k >= vmcall.val /\ k < vmcall.val + vmcall.arg
                             THEN FreeEntry
                             ELSE coremap[k]
          /\ coremap' = vmbefore
     /\ RepeatsAlloc => vmcall'.val = vmprev.val]_vars

\* vm_fault was called at the last step
FaultStep == aret'.call = "vm_fault" /\ abudget'.faults < abudget.faults

\* the page of address a lies in no region, not in the heap, not in the stack
OutsideAll(as, a) ==
  /\ \A k \in 1..Len(as.regions) :
       ~(/\ as.regions[k].vbase <= PageOf(a)
         /\ PageOf(a) < as.regions[k].vbase + as.regions[k].npages * PAGE_SIZE)
  /\ ~(as.heap_base <= PageOf(a) /\ PageOf(a) < as.heap_end)
  /\ ~(as.stack_end <= PageOf(a) /\ PageOf(a) < as.stack_base)

\* C23: vm_fault on an address whose page lies in no region, not in the heap
\* and not in the stack, or with no current address space, returns EFAULT and
\* changes nothing: no TLB slot is written, no frame and no level-2 table is
\* allocated, the page table is unchanged.
C23_FaultOutsideIsEFAULT ==
  [][(FaultStep /\ (curas = NoAs \/ OutsideAll(TheAs, aret'.addr))) =>
       /\ aret'.err = EFAULT
       /\ tlb' = tlb
       /\ coremap' = coremap
       /\ addrspaces' = addrspaces]_vars

C23_Witness ==
  /\ aret.call = "vm_fault" /\ aret.err = EFAULT
  /\ curas # NoAs
  /\ Len(TheAs.regions) = MaxRegions
  /\ TheAs.stack_base = USERSTACK
  /\ OutsideAll(TheAs, aret.addr)
  /\ \E a \in Vpages : TheAs.pt[a] # NoFrame

\* address a is in a page of a region whose writable flag is false
InReadOnlyRegion(as, a) ==
  \E k \in 1..Len(as.regions) :
    /\ ~as.regions[k].writeable
    /\ as.regions[k].vbase <= PageOf(a)
    /\ PageOf(a) < as.regions[k].vbase + as.regions[k].npages * PAGE_SIZE

\* a store to address a goes through: the TLB holds a valid dirty entry for
\* its page
WriteSucceeds(a) ==
  \E i \in TlbSlots : tlb[i].valid /\ tlb[i].dirty /\ tlb[i].vpn = PageOf(a)

\* C24: in any sequence of as_prepare_load, page faults and as_complete_load,
\* a write to a page of a region whose writable flag is false succeeds only
\* while is-loading is true: while it is false no dirty TLB entry exists for
\* such a page (none is installed, none survives as_complete_load) and a
\* read-only-violation fault on it returns EFAULT.
C24_ReadOnlyUnlessLoading ==
  /\ [](curas # NoAs /\ ~TheAs.loading =>
          \A a \in Vpages : InReadOnlyRegion(TheAs, a) => ~WriteSucceeds(a))
  /\ [][(/\ FaultStep /\ curas # NoAs /\ ~TheAs.loading
         /\ aret'.faulttype = VM_FAULT_READONLY
         /\ InReadOnlyRegion(TheAs, aret'.addr)) =>
          aret'.err = EFAULT]_vars

\* sys_sbrk was called at the last step
SbrkStep == aret'.call = "sbrk" /\ abudget'.sbrks < abudget.sbrks

\* C25: sys_sbrk(amount) returns the heap_end of before the call, and a
\* successful call sets heap_end to that value plus amount: sbrk(0) after a
\* successful sbrk(k) returns the previous break plus k, and sbrk(0) never
\* changes heap_end.
C25_SbrkReturnsOldBreak ==
  [][(SbrkStep /\ aret'.err = 0) =>
       /\ aret'.val = TheAs.heap_end
       /\ addrspaces'[curas].heap_end = TheAs.heap_end + aret'.amount
       /\ (aret'.amount = 0 => addrspaces' = addrspaces)
       /\ (aret.call = "sbrk" /\ aret.err = 0 /\ aret'.amount = 0 =>
             aret'.val = aret.val + aret.amount)]_vars

C25_Witness ==
  /\ aret.call = "sbrk" /\ aret.err = 0 /\ aret.amount = 0
  /\ abudget.sbrks = MaxSbrks - 3
  /\ TheAs.heap_end = aret.val
  /\ TheAs.heap_end > TheAs.heap_base + PAGE_SIZE
  /\ TheAs.heap_end % PAGE_SIZE # 0

StackDefined(as) == as.stack_base = USERSTACK

\* the heap lies under the stack
HeapInBounds(as) == as.heap_base <= as.heap_end /\ as.heap_end < as.stack_end

\* what a call with this amount is to return: ENOMEM when the new end wraps
\* around the address space or reaches stack_end, EINVAL when it falls below
\* heap_base, 0 otherwise
SbrkExpected(as, amount) ==
  LET n == as.heap_end + amount
  IN IF amount = 0 THEN 0
     ELSE IF n < 0 \/ n >= VADDR_SPACE THEN ENOMEM
     ELSE IF n < as.heap_base THEN EINVAL
     ELSE IF n >= as.stack_end THEN ENOMEM
     ELSE 0

\* the result is the expected one, and a failing call changes nothing
SbrkResult ==
  /\ aret'.err = SbrkExpected(TheAs, aret'.amount)
  /\ (aret'.err # 0 => addrspaces' = addrspaces /\ coremap' = coremap)

\* C26 as stated: after any sequence of sbrk calls on an address space with a
\* defined stack heap_base <= heap_end < stack_end; a new end below heap_base
\* gives EINVAL, one at or past stack_end or wrapping around gives ENOMEM, and
\* a failing call leaves heap_end unchanged and allocates no frame.
C26_HeapBelowStack ==
  /\ [](curas # NoAs /\ aret.call = "sbrk" /\ StackDefined(TheAs) =>
          HeapInBounds(TheAs))
  /\ [][(SbrkStep /\ curas # NoAs /\ StackDefined(TheAs)) => SbrkResult]_vars

\* C26 (amended): the same for sbrk calls on an address space with a defined
\* stack whose heap lay under the stack before the call.
C26_HeapStaysBelowStack ==
  [][(SbrkStep /\ curas # NoAs /\ StackDefined(TheAs) /\ HeapInBounds(TheAs)) =>
       /\ HeapInBounds(addrspaces'[curas])
       /\ SbrkResult]_vars

C26_Witness ==
  /\ aret.call = "sbrk" /\ aret.err = ENOMEM /\ aret.amount > 0
  /\ curas # NoAs /\ StackDefined(TheAs)
  /\ TheAs.heap_end + aret.amount = TheAs.stack_end
  /\ TheAs.heap_end > TheAs.heap_base
  /\ abudget.sbrks = 0

\* ------------------------------------------------------------------ C27
\* a step in which sys_execv returns an error to its caller
ExecFails == xret.call = "none" /\ xret'.call = "execv" /\ xret'.err # 0

\* the new address space is gone and the frames it was given are free again:
\* the only frames taken since the call are frames of the caller
NewAsDestroyed ==
  /\ \A i \in AsIds \ {curas} : addrspaces'[i].st # "live"
  /\ \A k \in Frames :
       coremap[k].free /\ ~coremap'[k].free => k \in FramesOf(addrspaces'[curas])

\* C27: if sys_execv returns an error, the caller's address space is the one
\* it had before the call with regions, page-table entries, frames and
\* heap/stack bounds unchanged, the new address space has been destroyed with
\* all its frames freed, and file table, CWD, pid and parent are unchanged
C27_FailedExecChangesNothing ==
  [][ExecFails =>
       /\ curas' = curas
       /\ addrspaces'[curas] = addrspaces[curas]
       /\ NewAsDestroyed
       /\ \A k \in Frames : ~coremap[k].free => coremap'[k] = coremap[k]
       /\ UNCHANGED kvars]_vars

\* C27 as it holds: what the caller's address space had before the call is
\* unchanged (a page of the caller that copyin touched for the first time is
\* the only thing that may have been added), the new address space has been
\* destroyed with all its frames freed, and file table, CWD, pid and parent
\* are unchanged
C27_FailedExecKeepsCaller ==
  [][ExecFails =>
       /\ curas' = curas
       /\ addrspaces'[curas].st = addrspaces[curas].st
       /\ addrspaces'[curas].regions = addrspaces[curas].regions
       /\ addrspaces'[curas].heap_base = addrspaces[curas].heap_base
       /\ addrspaces'[curas].heap_end = addrspaces[curas].heap_end
       /\ addrspaces'[curas].stack_base = addrspaces[curas].stack_base
       /\ addrspaces'[curas].stack_end = addrspaces[curas].stack_end
       /\ addrspaces'[curas].loading = addrspaces[curas].loading
       /\ \A a \in Vpages :
            addrspaces[curas].pt[a] # NoFrame
              => addrspaces'[curas].pt[a] = addrspaces[curas].pt[a]
       /\ \A k \in Frames : ~coremap[k].free => coremap'[k] = coremap[k]
       /\ NewAsDestroyed
       /\ UNCHANGED kvars]_vars

\* a call that failed after the new address space had its text page, the
\* caller's argv page touched on the way
C27_Witness ==
  /\ xret.call = "execv" /\ xret.err = EIO
  /\ xenv.touch
  /\ curas = 1 /\ TheAs.pt[ArgvPage] # NoFrame
  /\ addrspaces[2].st = "destroyed"
  /\ Cardinality({k \in Frames : ~coremap[k].free}) < TotalPages

\* ------------------------------------------------------------------ C28
\* sys_execv has entered the new program
ExecEntered == xret.call = "execv" /\ xret.err = 0

\* the word of the new stack that is argv[i], i counted from 0
ArgvSlot(i) == xret.mem.w[xret.argv + i * PTR_SIZE]

\* at address p stands a NUL-terminated copy of the i-th string of the
\* caller's argv (i counted from 1)
CopyOfArg(p, i) ==
  /\ p \in StackAddrs /\ p + xargs[i] \in StackAddrs
  /\ \A k \in 0..(xargs[i] - 1) : xret.mem.b[p + k] = i
  /\ xret.mem.b[p + xargs[i]] = 0

\* C28: for every accepted argument vector, on entry to the new program argc
\* is the number of strings, the argv array starts at the final stack pointer,
\* argv[i] is the address of a NUL-terminated copy of the i-th string,
\* argv[argc] is NULL, the entries are contiguous and read upward, and every
\* string lies above the array and below USERSTACK
C28_ArgvLayout ==
  ExecEntered =>
    /\ xret.argc = Len(xargs)
    /\ xret.argv = xret.stackptr
    /\ \A i \in 0..xret.argc : xret.argv + i * PTR_SIZE \in StackAddrs
    /\ \A i \in 1..xret.argc :
         /\ CopyOfArg(ArgvSlot(i - 1), i)
         /\ ArgvSlot(i - 1) >= xret.argv + (xret.argc + 1) * PTR_SIZE
         /\ ArgvSlot(i - 1) + xargs[i] < USERSTACK
    /\ ArgvSlot(xret.argc) = 0

\* a program entered with two strings of different lengths, padding between
\* the array and the strings
C28_Witness ==
  /\ ExecEntered /\ xret.argc = 2
  /\ xargs[1] > xargs[2] /\ xargs[2] > 0
  /\ ArgvSlot(0) > xret.argv + (xret.argc + 1) * PTR_SIZE
  /\ ArgvSlot(1) > ArgvSlot(0)

\* ------------------------------------------------------------------ C29
\* C29: for every argument vector, the stack pointer with which sys_execv
\* enters the new program is a multiple of 8
C29_StackPointerAligned ==
  ExecEntered => xret.stackptr % 8 = 0

\* ------------------------------------------------------------------ C30
\* the bytes the argument vector needs: every string with its NUL and the
\* argv array with its NULL terminator
RECURSIVE StringBytes(_, _)
StringBytes(args, n) ==
  IF n = 0 THEN 0 ELSE StringBytes(args, n - 1) + args[n] + 1
ArgBudget(args) == StringBytes(args, Len(args)) + (Len(args) + 1) * PTR_SIZE

ExecReturned == xret.call = "execv"

\* C30: sys_execv returns E2BIG exactly when the strings with their NULs plus
\* argc + 1 pointers take more than ARG_MAX bytes
C30_E2BIGExactlyOverBudget ==
  ExecReturned => (xret.err = E2BIG <=> ArgBudget(xargs) > ARG_MAX)

\* ------------------------------------------------------------------ C31
\* a step in which sys_fork returns, and one in which it returns 0
ForkStep == mbudget'.forks < mbudget.forks
ForkSucceeds == ForkStep /\ aret'.err = 0
StoreStep == aret'.call = "store" /\ mbudget'.stores < mbudget.stores

\* the pages of an address space that have a frame
MappedPages(as) == {a \in Vpages : as.pt[a] # NoFrame}

\* C31: after a successful fork the child's address space has the parent's
\* regions, heap and stack bounds and is-loading flag and maps the same pages,
\* each on a frame of its own that is no frame of the parent and holds what
\* the parent's page held; a later store by a process changes no page of
\* another process
C31_ForkCopiesAddressSpace ==
  [][/\ ForkSucceeds =>
          LET parent == addrspaces[curas]
              child == addrspaces'[aret'.val]
          IN /\ addrspaces[aret'.val].st # "live" /\ child.st = "live"
             /\ addrspaces'[curas] = parent
             /\ child.regions = parent.regions
             /\ child.heap_base = parent.heap_base
             /\ child.heap_end = parent.heap_end
             /\ child.stack_base = parent.stack_base
             /\ child.stack_end = parent.stack_end
             /\ child.loading = parent.loading
             /\ MappedPages(child) = MappedPages(parent)
             /\ \A a \in MappedPages(child) :
                  /\ coremap[child.pt[a]].free
                  /\ child.pt[a] \notin FramesOf(parent)
                  /\ framedata'[child.pt[a]] = framedata[parent.pt[a]]
                  /\ \A b \in MappedPages(child) \ {a} : child.pt[b] # child.pt[a]
             /\ \A k \in FramesOf(parent) : framedata'[k] = framedata[k]
     /\ StoreStep =>
          \A i \in AsIds \ {curas} :
            addrspaces[i].st = "live" =>
              \A k \in FramesOf(addrspaces[i]) : framedata'[k] = framedata[k]
    ]_vars

\* the child has stored to its copy of a page, and the parent's page holds
\* what it held
C31_Witness ==
  /\ aret.call = "store" /\ curas = 2
  /\ addrspaces[1].st = "live" /\ addrspaces[2].st = "live"
  /\ Cardinality(MappedPages(addrspaces[2])) = 2
  /\ \E a \in MappedPages(addrspaces[1]) \cap MappedPages(addrspaces[2]) :
       /\ aret.val = addrspaces[2].pt[a]
       /\ framedata[addrspaces[2].pt[a]] = UserData
       /\ framedata[addrspaces[1].pt[a]] = ZeroPage

\* ------------------------------------------------------------------ C38
\* C38: if as_copy fails partway, every frame the call had allocated has been
\* freed, so the allocated frames are those allocated before the call, and
\* the source address space is unchanged
C38_FailedCopyFreesAll ==
  [][ForkStep /\ aret'.call = "as_copy" =>
       /\ aret'.err # 0
       /\ \A k \in Frames : coremap'[k].free = coremap[k].free
       /\ addrspaces'[curas] = addrspaces[curas]
       /\ addrspaces'[aret'.val].st # "live"]_vars

\* ------------------------------------------------------------------ C37
\* the frames a step takes from the free ones
FramesTaken == {k \in Frames : coremap[k].free /\ ~coremap'[k].free}

\* C37: a fault on a valid page whose leaf is 0 allocates exactly one frame,
\* zero-fills it and records it in the leaf; a fault on a page that has a
\* frame reuses it and allocates nothing; no fault changes the frame or the
\* contents of a page that has one; with no frame available the fault returns
\* ENOMEM, installs no TLB entry and leaves the leaf 0
C37_FaultAllocatesOnce ==
  [][FaultStep /\ curas # NoAs =>
       LET as == addrspaces[curas]
           after == addrspaces'[curas]
           page == PageOf(aret'.addr)
       IN /\ \A b \in MappedPages(as) :
               /\ after.pt[b] = as.pt[b]
               /\ framedata'[as.pt[b]] = framedata[as.pt[b]]
          /\ \A k \in Frames : ~coremap[k].free => coremap'[k] = coremap[k]
          /\ aret'.err = 0 /\ as.pt[page] = NoFrame =>
               \E k \in Frames :
                 /\ FramesTaken = {k}
                 /\ coremap'[k] = [free |-> FALSE, block_size |-> 1]
                 /\ framedata'[k] = ZeroPage
                 /\ after.pt[page] = k
                 /\ MappedPages(after) = MappedPages(as) \cup {page}
          /\ aret'.err = 0 /\ as.pt[page] # NoFrame =>
               /\ FramesTaken = {}
               /\ after.pt = as.pt
               /\ \E i \in TlbSlots :
                    /\ tlb'[i].valid /\ tlb'[i].vpn = page
                    /\ tlb'[i].frame = as.pt[page]
          /\ aret'.err # 0 =>
               /\ FramesTaken = {}
               /\ after.pt = as.pt
               /\ tlb' = tlb
          /\ (/\ aret'.err # EFAULT
              /\ as.pt[page] = NoFrame
              /\ \A k \in Frames : ~coremap[k].free) => aret'.err = ENOMEM
    ]_vars

\* a second fault on the data page after the program has stored to it: the
\* page has the frame and the contents it had
C37_Witness ==
  /\ aret.call = "vm_fault" /\ aret.err = 0 /\ abudget.faults = 0
  /\ PageOf(aret.addr) = 3 * PAGE_SIZE
  /\ curas = 1 /\ TheAs.pt[3 * PAGE_SIZE] # NoFrame
  /\ framedata[TheAs.pt[3 * PAGE_SIZE]] = UserData
  /\ mbudget.stores < MaxStores

\* ------------------------------------------------------------------ C39
\* the address spaces that exist
LiveAs == {i \in AsIds : addrspaces[i].st = "live"}

\* the (address space, page) pairs whose leaf holds a frame
Leaves == {l \in LiveAs \X Vpages : addrspaces[l[1]].pt[l[2]] # NoFrame}

LeafFrame(l) == addrspaces[l[1]].pt[l[2]]

\* C39: after any sequence of page faults, sbrk, fork, execv, exit and
\* waitpid, the frames in the page-table leaves of all live address spaces
\* are pairwise distinct, and each is allocated in the coremap as a
\* single-frame block
C39_LeafFramesDistinct ==
  /\ \A l, m \in Leaves : l # m => LeafFrame(l) # LeafFrame(m)
  /\ \A l \in Leaves :
       coremap[LeafFrame(l)] = [free |-> FALSE, block_size |-> 1]

\* two address spaces live after a fork, each with a page brought in by a
\* fault, and an address space already reaped
C39_Witness ==
  /\ Cardinality(LiveAs) = 2
  /\ Cardinality(Leaves) >= 3
  /\ \E i \in AsIds : addrspaces[i].st = "destroyed"

\* ------------------------------------------------------------------ C32
\* thread t leaves sys_fork with an error after proc_create has returned
FailedForkStep(t) ==
  /\ pc[t] = "fork_copy"
  /\ ev'.t = t /\ ev'.call = "fork" /\ ev'.err # 0

\* sys_fork is past proc_create and the kernel stops on freed or
\* uninitialised memory
ForkCrashStep(t) ==
  /\ pc[t] = "fork_copy" /\ Running
  /\ panicked' = "crash"

\* C32: on every failure of sys_fork after proc_create each resource of the
\* child is released exactly once: the record is freed and its PID slot
\* cleared, no memory is released twice, and every open-file object has the
\* reference count it had before the call, the parent's file table and the
\* rest of the PID table unchanged
C32_FailedForkReleasesOnce ==
  [][\A t \in Recs :
       /\ ~ForkCrashStep(t)
       /\ FailedForkStep(t) =>
            LET c == loc[t].child IN
            /\ proc'[c].st = "freed"
            /\ file_table'[t] = file_table[t]
            /\ \A f \in Objs :
                 obj'[f].reference_count = obj[f].reference_count
            /\ \A i \in Pids :
                 pid_table'[i] = IF pid_table[i] = c THEN NoProc
                                 ELSE pid_table[i]
    ]_vars

\* ------------------------------------------------------------------ C33
\* sys_waitpid in thread t calls proc_destroy on its target (the record is
\* freed, or proc_destroy stops on one of its assertions)
ReapStep(t) ==
  /\ pc[t] = "wp_reap" /\ Running /\ ~Stale(loc[t].child)
  /\ \/ proc'[loc[t].child].st = "freed"
     \/ panicked' = "assert" /\ ~DestroyAsserts(loc[t].child)

\* C33: when sys_waitpid calls proc_destroy on the child the caller holds the
\* only reference to it: under no interleaving is the child's thread still
\* between setting p_exited and the end of thread_exit
C33_ReapHoldsOnlyReference ==
  [][\A t \in Recs :
       ReapStep(t) =>
         /\ OnlyReference(loc[t].child)
         /\ pc[loc[t].child] = "zombie"
    ]_vars

\* ------------------------------------------------------------------ C34
\* the number of slots of table ft that point to object f
SlotsIn(ft, f) == Cardinality({fd \in Fds : ft[fd] = f})

\* the step frees record c and with it destroys c's file table
TableDestroyed(c) == proc[c].st = "live" /\ proc'[c].st = "freed"

\* C34: destroy_file_table(ft) drops exactly one reference on the open-file
\* object of every non-null slot of ft: an object referenced only by ft is
\* destroyed and its vnode closed, an object also referenced from another
\* table has its reference count reduced by the number of slots of ft that
\* pointed to it
C34_DestroyDropsEachSlot ==
  [][\A c \in Recs :
       TableDestroyed(c) =>
         \A f \in Objs :
           LET n == SlotsIn(file_table[c], f) IN
           (n > 0 /\ obj[f].st = "live") =>
             IF obj[f].reference_count = n
             THEN /\ obj'[f].st = "freed"
                  /\ obj'[f].closes = obj[f].closes + 1
             ELSE obj'[f].reference_count = obj[f].reference_count - n
    ]_vars

\* ------------------------------------------------------------------ C36
lock_do_i_hold_unowned(t) == lk_owner # NoThread
\* synch.c:230-235  lock_do_i_hold called by thread t
lock_do_i_hold(t) == lk_owner = t

\* thread t has completed a lock_acquire and the lock's semaphore has not
\* been given back for it: t is in its critical section, or inside
\* lock_release (its own, or that of cv_wait) before V has counted
HoldsUntilV(t) == HasLock(t) /\ ~At(t, "acq_owner")

\* C36 as stated: in every reachable state lk_owner is non-null exactly when
\* some thread holds the lock (the semaphore's count is 0 because of a
\* completed acquire not yet released), and then lk_owner is that thread
C36_OwnerIffHeld ==
  /\ (lk_owner # NoThread) <=> (\E t \in Threads : HoldsUntilV(t))
  /\ \A t \in Threads : HoldsUntilV(t) => lk_owner = t

\* thread t holds the lock as far as the owner field goes: lock_acquire has
\* returned and lock_release has not yet reset lk_owner
HoldsOwner(t) == t \in holds \/ At(t, "rel_check")

\* C36 as it holds: in every reachable state lk_owner is non-null exactly
\* when some thread holds the lock, where holding ends with lock_release's
\* reset of lk_owner; lk_owner is then that thread and the semaphore's count
\* is 0.  Between the reset and V, as between P and the assignment in
\* lock_acquire, the count is 0 and lk_owner is null.  lock_do_i_hold returns
\* true for the holder and false for every other thread.
C36_OwnerIffHolding ==
  /\ \A t \in Threads : (lk_owner = t) <=> HoldsOwner(t)
  /\ lk_owner # NoThread => lk_owner \in Threads /\ sem_count["lk_sem"] = 0
  /\ \A t \in Threads :
       (HasLock(t) /\ ~HoldsOwner(t)) =>
          lk_owner = NoThread /\ sem_count["lk_sem"] = 0
  /\ \A t \in Threads : At(t, "idle") => (lock_do_i_hold(t) <=> t \in holds)

\* one thread is past lock_release's reset of lk_owner and before V, while
\* another sleeps in lock_acquire
C36_Witness ==
  \E t \in Threads, u \in Threads :
    /\ th[t].op = "lock_release" /\ At(t, "V_spin")
    /\ lk_owner = NoThread /\ sem_count["lk_sem"] = 0
    /\ th[u].op = "lock_acquire" /\ u \in sem_wchan["lk_sem"]

\* ------------------------------------------------------------------ C35
\* thread t is at, or blocked in, a lock_acquire of an open-file object's lock
AtObjectLock(t) ==
  pc[t] \in {"lk_incref_acquire", "lk_decref_acquire", "lk_io_acquire"}

\* C35: no thread acquires, or blocks waiting for, the lock of an open-file
\* object while it holds a file-table lock: in read, write, lseek, dup2, close
\* and copy_file_table the table lock is released before any acquisition of
\* an object lock, those inside open_file_incref and open_file_decref
\* included
C35_TableLockReleasedFirst ==
  \A t \in Recs, u \in Recs :
    ft_lock[u] = t =>
      /\ ~AtObjectLock(t)
      /\ \A f \in Objs : file_lock[f] # t

\* ------------------------------------------------------------------ C40
\* thread t is inside a file call or inside fork's copy_file_table
InFileCall(t) == pc[t] \notin {"none", "user"}

\* C40: no interleaving of read, write, lseek, close, dup2 and fork by
\* processes that share open-file objects leaves threads waiting for ever on
\* file-table locks and object locks: under fair scheduling every such call
\* eventually completes
C40_FileCallsComplete ==
  \A t \in Recs : InFileCall(t) ~> (pc[t] = "user")

====
